---- MODULE Spec2Model ----
(***************************************************************************)
(* Quiz application (src/Quiz_app/main.py): the scoring function, the      *)
(* quiz-taking session, and the transactional save of a quiz definition    *)
(* and of a completed attempt against the relational store.                *)
(***************************************************************************)
EXTENDS Integers, Sequences, FiniteSets, TLC

VARIABLES
    Quizzes,        \* committed rows of table Quizzes
    SubQuizzes,     \* committed rows of table SubQuizzes
    Questions,      \* committed rows of table Questions
    Choices,        \* committed rows of table Choices
    QuizTakers,     \* committed rows of table QuizTakers
    Answers,        \* committed rows of table Answers
    lastrowid,      \* per table, the last AUTO_INCREMENT id handed out
    session_state,  \* per browser session, st.session_state
    ui,             \* per browser session, the script run: pending rerun, widget state
    conn,           \* per browser session, the handler in progress and its open transaction
    scored          \* the last call of score_answer: its arguments and its result

vars == <<Quizzes, SubQuizzes, Questions, Choices, QuizTakers, Answers,
          lastrowid, session_state, ui, conn, scored>>

tables == <<Quizzes, SubQuizzes, Questions, Choices, QuizTakers, Answers>>

----------------------------------------------------------------------------
(* Bounds of the model *)

\* browser sessions that author and save concurrently
NumAuthors == 2
\* browser sessions that take a quiz
NumTakers == 1
\* modules an author adds to one quiz
MaxSubQuizzes == 2
\* questions an author adds to one module
MaxQuestions == 2
\* save_quiz calls (each consumes one QuizID, committed or not)
MaxSaves == 1
\* submit_results calls (each consumes one TakerID, committed or not)
MaxSubmits == 2
\* distinct outcomes of the random access code generator
MaxCodes == 2
\* choices an author gives one question
MaxChoices == 3

----------------------------------------------------------------------------
(* Python values *)

\* None
PyNone == [py |-> "None", v |-> 0]
\* str(n) for a database id n: the model keeps the number, and orders such
\* strings as Python does, by their decimal digits
PyId(n) == [py |-> "str", v |-> n]
\* a list of id strings
PyList(s) == [py |-> "list", v |-> s]
\* free text typed into a text area (also a Python str; the program never
\* compares it with an id string)
PyText(t) == [py |-> "text", v |-> t]

\* Python's == on these values: values of different types are unequal
PyEq(a, b) == a.py = b.py /\ a.v = b.v

RECURSIVE Digits(_)
\* the characters of str(n), n >= 0, as digits
Digits(n) == IF n < 10 THEN <<n>> ELSE Digits(n \div 10) \o <<n % 10>>

RECURSIVE LexLess(_, _)
\* Python's < on two strings of digits: lexicographic
LexLess(s, t) ==
    IF s = <<>> THEN t # <<>>
    ELSE IF t = <<>> THEN FALSE
    ELSE IF Head(s) # Head(t) THEN Head(s) < Head(t)
    ELSE LexLess(Tail(s), Tail(t))

\* str(m) < str(n)
StrLess(m, n) == LexLess(Digits(m), Digits(n))

RECURSIVE InsertSorted(_, _)
InsertSorted(x, s) ==
    IF s = <<>> THEN <<x>>
    ELSE IF StrLess(Head(s), x) THEN <<Head(s)>> \o InsertSorted(x, Tail(s))
    ELSE <<x>> \o s

\* sorted() left out: the list as given
sorted_unordered(s) == s

RECURSIVE sorted(_)
\* sorted(list of id strings): ascending in Python's string order
sorted(s) == IF s = <<>> THEN <<>> ELSE InsertSorted(Head(s), sorted(Tail(s)))

\* [f(x) for x in s if p(x)] for the choices of a question: the ids of the
\* choices flagged correct, in list order
RECURSIVE CorrectIds(_)
CorrectIds(choices) ==
    IF choices = <<>> THEN <<>>
    ELSE (IF Head(choices).is_correct THEN <<Head(choices).id>> ELSE <<>>)
         \o CorrectIds(Tail(choices))

----------------------------------------------------------------------------
(* score_answer *)

QuestionTypes == {"SINGLE_CHOICE", "MULTI_SELECT", "OPEN_TEXT"}

ScoreResult(score, correct) == [raised |-> FALSE, score |-> score, correct |-> correct]
\* sorted(None) raises TypeError
ScoreRaises == [raised |-> TRUE, score |-> 0, correct |-> FALSE]

\* the filter `if c['is_correct']` left out: the id of the first choice
correct_choice_id_unfiltered(question) ==
    IF question.choices = <<>> THEN PyNone ELSE PyId(Head(question.choices).id)

\* next((c['id'] for c in question['choices'] if c['is_correct']), None)
correct_choice_id(question) ==
    LET ids == CorrectIds(question.choices)
    IN  IF ids = <<>> THEN PyNone ELSE PyId(Head(ids))

score_single_choice(question, submitted_answer) ==
    IF PyEq(submitted_answer, correct_choice_id(question))
    THEN ScoreResult(question.points, TRUE)
    ELSE ScoreResult(0, FALSE)

\* partial credit: one point for a selection that holds a correct id
score_multi_select_partial(question, submitted_answer) ==
    LET correct_ids == sorted(CorrectIds(question.choices))
    IN  IF submitted_answer.py # "list" THEN ScoreResult(0, FALSE)
        ELSE IF correct_ids = sorted(submitted_answer.v)
        THEN ScoreResult(question.points, TRUE)
        ELSE IF \E i \in 1 .. Len(submitted_answer.v) :
                    \E j \in 1 .. Len(correct_ids) : submitted_answer.v[i] = correct_ids[j]
        THEN ScoreResult(1, FALSE)
        ELSE ScoreResult(0, FALSE)

score_multi_select(question, submitted_answer) ==
    LET correct_ids == sorted(CorrectIds(question.choices))
    IN  CASE submitted_answer.py = "None" -> ScoreRaises
          [] submitted_answer.py = "list" ->
                IF correct_ids = sorted(submitted_answer.v)
                THEN ScoreResult(question.points, TRUE)
                ELSE ScoreResult(0, FALSE)
          [] submitted_answer.py = "str" ->
                \* sorted(str) is the sorted list of its characters
                IF correct_ids = sorted(Digits(submitted_answer.v))
                THEN ScoreResult(question.points, TRUE)
                ELSE ScoreResult(0, FALSE)
          [] OTHER ->
                \* sorted(text): only the empty text gives the empty list;
                \* the letters of a text are no id strings
                IF submitted_answer.v = "" /\ correct_ids = <<>>
                THEN ScoreResult(question.points, TRUE)
                ELSE ScoreResult(0, FALSE)

score_open_text_points(question, submitted_answer) ==
    ScoreResult(question.points, TRUE)

score_open_text(question, submitted_answer) == ScoreResult(0, FALSE)

score_answer(question, submitted_answer) ==
    CASE question.type = "SINGLE_CHOICE" -> score_single_choice(question, submitted_answer)
      [] question.type = "MULTI_SELECT" -> score_multi_select(question, submitted_answer)
      [] question.type = "OPEN_TEXT" -> score_open_text(question, submitted_answer)
      [] OTHER -> ScoreResult(0, FALSE)

----------------------------------------------------------------------------
(* The authored tree: st.session_state['sub_quizzes'] *)

Sessions == 1 .. (IF NumAuthors > NumTakers THEN NumAuthors ELSE NumTakers)
AuthorSessions == 1 .. NumAuthors
TakerSessions == 1 .. NumTakers

\* user_id, the CreatorUserID of every quiz
user_id == "streamlite_creator_session"

generate_question_data(i) ==
    [id |-> ToString(i),
     text |-> "Question " \o ToString(i) \o " text",
     type |-> "SINGLE_CHOICE",
     points |-> 1,
     choices |-> << [id |-> "a", text |-> "Choice A", is_correct |-> TRUE],
                    [id |-> "b", text |-> "Choice B", is_correct |-> FALSE],
                    [id |-> "c", text |-> "Choice C", is_correct |-> FALSE] >>]

generate_subquiz_data(i) ==
    [id |-> ToString(i),
     title |-> "Sub-Quiz Module " \o ToString(i),
     questions |-> <<generate_question_data(1)>>]

----------------------------------------------------------------------------
(* The store: tables, AUTO_INCREMENT ids, transactions *)

TableNames == {"Quizzes", "SubQuizzes", "Questions", "Choices", "QuizTakers", "Answers"}

NoRows == [n \in TableNames |-> {}]

\* the local variables of a handler that only reads, while none runs
NoRead == <<>>

\* a connection with no handler running and no open transaction
IdleConn ==
    [pc |-> "idle", todo |-> <<>>, rows |-> NoRows,
     quiz_id |-> 0, subquiz_id |-> 0, question_id |-> 0, taker_id |-> 0,
     access_code |-> <<>>, total_score |-> 0, read |-> NoRead]

\* the INSERT statements of save_quiz after the Quizzes row, in the order
\* its nested loops issue them
RECURSIVE ChoiceInserts(_)
ChoiceInserts(choices) ==
    IF choices = <<>> THEN <<>>
    ELSE << [stmt |-> "Choices", text |-> Head(choices).text,
             is_correct |-> IF Head(choices).is_correct THEN 1 ELSE 0] >>
         \o ChoiceInserts(Tail(choices))

RECURSIVE QuestionInserts(_, _)
QuestionInserts(questions, q_idx) ==
    IF questions = <<>> THEN <<>>
    ELSE LET question == Head(questions)
         IN  << [stmt |-> "Questions", text |-> question.text, type |-> question.type,
                 points |-> question.points, order |-> q_idx] >>
             \o (IF question.type # "OPEN_TEXT" THEN ChoiceInserts(question.choices) ELSE <<>>)
             \o QuestionInserts(Tail(questions), q_idx + 1)

RECURSIVE SubQuizInserts(_, _)
SubQuizInserts(sub_quizzes_data, sq_idx) ==
    IF sub_quizzes_data = <<>> THEN <<>>
    ELSE LET sub_quiz == Head(sub_quizzes_data)
         IN  << [stmt |-> "SubQuizzes", title |-> sub_quiz.title, order |-> sq_idx] >>
             \o QuestionInserts(sub_quiz.questions, 0)
             \o SubQuizInserts(Tail(sub_quizzes_data), sq_idx + 1)

\* all INSERT statements of one save_quiz call
SaveInserts(quiz_title, sub_quizzes_data) ==
    << [stmt |-> "Quizzes", title |-> quiz_title] >> \o SubQuizInserts(sub_quizzes_data, 0)

\* cursor.execute(INSERT ...) inside the open transaction c, with `last` the
\* AUTO_INCREMENT counters: the row is added to the transaction's uncommitted
\* rows under a fresh id, which cursor.lastrowid then returns
ExecInsert(c, last, st) ==
    LET id == last[st.stmt] + 1
        row == CASE st.stmt = "Quizzes" ->
                      [QuizID |-> id, CreatorUserID |-> user_id, Title |-> st.title,
                       Access_Code |-> c.access_code]
                 [] st.stmt = "SubQuizzes" ->
                      [SubQuizID |-> id, QuizID |-> c.quiz_id, Title |-> st.title,
                       Order_Index |-> st.order]
                 [] st.stmt = "Questions" ->
                      [QuestionID |-> id, SubQuizID |-> c.subquiz_id, Question_Text |-> st.text,
                       Question_Type |-> st.type, Points |-> st.points, Order_Index |-> st.order]
                 [] st.stmt = "Choices" ->
                      [ChoiceID |-> id, QuestionID |-> c.question_id, Choice_Text |-> st.text,
                       Is_Correct |-> st.is_correct]
                 [] st.stmt = "QuizTakers" ->
                      [TakerID |-> id, QuizID |-> st.quiz_id, Taker_Name |-> st.taker_name,
                       Total_Score |-> st.total_score]
                 [] OTHER ->
                      [TakerID |-> c.taker_id, QuestionID |-> st.question_id,
                       Submitted_Answer |-> st.submitted, Is_Correct |-> st.is_correct,
                       Score_Achieved |-> st.score]
        c1 == [c EXCEPT !.rows[st.stmt] = @ \cup {row}]
        c2 == CASE st.stmt = "Quizzes" -> [c1 EXCEPT !.quiz_id = id]
                [] st.stmt = "SubQuizzes" -> [c1 EXCEPT !.subquiz_id = id]
                [] st.stmt = "Questions" -> [c1 EXCEPT !.question_id = id]
                [] st.stmt = "QuizTakers" -> [c1 EXCEPT !.taker_id = id]
                [] OTHER -> c1
    IN  [c |-> c2,
         last |-> IF st.stmt = "Answers" THEN last ELSE [last EXCEPT ![st.stmt] = id]]

RECURSIVE ExecAll(_, _, _)
\* a whole list of INSERT statements executed one after the other
ExecAll(c, last, todo) ==
    IF todo = <<>> THEN [c |-> c, last |-> last]
    ELSE LET r == ExecInsert(c, last, Head(todo))
         IN  ExecAll(r.c, r.last, Tail(todo))

\* autocommit instead of a transaction: the rows executed so far stay
rollback_keeps_rows(c) == c.rows

\* conn.rollback(): the rows of the transaction that reach the tables (none);
\* the ids they consumed are not handed out again
rollback(c) == NoRows

\* conn.commit(): the rows of the transaction that reach the tables (all)
commit(c) == c.rows

\* the tables hold the rows of the last transaction only
Persist_replace(rows) ==
    /\ Quizzes' = rows["Quizzes"]
    /\ SubQuizzes' = rows["SubQuizzes"]
    /\ Questions' = rows["Questions"]
    /\ Choices' = rows["Choices"]
    /\ QuizTakers' = rows["QuizTakers"]
    /\ Answers' = rows["Answers"]

\* the tables after `rows` reached them
Persist(rows) ==
    /\ Quizzes' = Quizzes \cup rows["Quizzes"]
    /\ SubQuizzes' = SubQuizzes \cup rows["SubQuizzes"]
    /\ Questions' = Questions \cup rows["Questions"]
    /\ Choices' = Choices \cup rows["Choices"]
    /\ QuizTakers' = QuizTakers \cup rows["QuizTakers"]
    /\ Answers' = Answers \cup rows["Answers"]

----------------------------------------------------------------------------
(* get_quiz_by_code *)

\* the rows of a query ORDER BY Order_Index, as a list
OrderByIndex(rows) ==
    [i \in 1 .. Cardinality(rows) |->
        CHOOSE r \in rows : Cardinality({r2 \in rows : r2.Order_Index < r.Order_Index}) = i - 1]

\* the rows of the Choices query, which has no ORDER BY: the store returns
\* them in primary key order
OrderByChoiceID(rows) ==
    [i \in 1 .. Cardinality(rows) |->
        CHOOSE r \in rows : Cardinality({r2 \in rows : r2.ChoiceID < r.ChoiceID}) = i - 1]

LoadChoices(q_id) ==
    LET choices_raw == OrderByChoiceID({c \in Choices : c.QuestionID = q_id})
    IN  [i \in 1 .. Len(choices_raw) |->
            [id |-> choices_raw[i].ChoiceID,
             text |-> choices_raw[i].Choice_Text,
             is_correct |-> choices_raw[i].Is_Correct # 0]]

LoadQuestions(sq_id) ==
    LET questions_raw == OrderByIndex({q \in Questions : q.SubQuizID = sq_id})
    IN  [i \in 1 .. Len(questions_raw) |->
            [id |-> questions_raw[i].QuestionID,
             text |-> questions_raw[i].Question_Text,
             type |-> questions_raw[i].Question_Type,
             points |-> questions_raw[i].Points,
             choices |-> IF questions_raw[i].Question_Type # "OPEN_TEXT"
                         THEN LoadChoices(questions_raw[i].QuestionID)
                         ELSE <<>>]]

LoadSubQuizzes(quiz_id) ==
    LET subquizzes_raw == OrderByIndex({sq \in SubQuizzes : sq.QuizID = quiz_id})
    IN  [i \in 1 .. Len(subquizzes_raw) |->
            [id |-> subquizzes_raw[i].SubQuizID,
             title |-> subquizzes_raw[i].Title,
             questions |-> LoadQuestions(subquizzes_raw[i].SubQuizID)]]

\* json.dumps / json.loads of the reconstructed list: lists, dicts, strings,
\* numbers and booleans survive the round trip unchanged
json_dumps(v) == [json |-> v]
json_loads(j) == j.json

\* cursor.fetchone() on the Quizzes query: the first row of the result, which
\* the store returns in primary key order
FetchOne(rows) == {r \in rows : \A r2 \in rows : r.QuizID <= r2.QuizID}

\* the Quizzes query without its WHERE clause
get_quiz_by_code_any(access_code) ==
    { [quiz_data |-> [title |-> quiz_header.Title,
                      creator_id |-> quiz_header.CreatorUserID,
                      access_code |-> access_code,
                      sub_quizzes_json |-> json_dumps(LoadSubQuizzes(quiz_header.QuizID))],
       quiz_doc_id |-> quiz_header.QuizID]
      : quiz_header \in FetchOne(Quizzes) }

\* the (quiz_data, quiz_doc_id) pair get_quiz_by_code returns on a live
\* connection, as a set: empty for (None, None), when no Quizzes row matches
get_quiz_by_code(access_code) ==
    { [quiz_data |-> [title |-> quiz_header.Title,
                      creator_id |-> quiz_header.CreatorUserID,
                      access_code |-> access_code,
                      sub_quizzes_json |-> json_dumps(LoadSubQuizzes(quiz_header.QuizID))],
       quiz_doc_id |-> quiz_header.QuizID]
      : quiz_header \in FetchOne({q \in Quizzes : q.Access_Code = access_code}) }

----------------------------------------------------------------------------
(* Access codes and typed text *)

ascii_uppercase == << "A", "B", "C", "D", "E", "F", "G", "H", "I", "J", "K", "L", "M",
                      "N", "O", "P", "Q", "R", "S", "T", "U", "V", "W", "X", "Y", "Z" >>
ascii_lowercase == << "a", "b", "c", "d", "e", "f", "g", "h", "i", "j", "k", "l", "m",
                      "n", "o", "p", "q", "r", "s", "t", "u", "v", "w", "x", "y", "z" >>
digits == << "0", "1", "2", "3", "4", "5", "6", "7", "8", "9" >>

\* the default length of generate_access_code
CodeLength == 6

\* string.ascii_lowercase + string.digits
characters_lowercase == ascii_lowercase \o digits

\* characters = string.ascii_uppercase + string.digits
characters == ascii_uppercase \o digits

\* ''.join(random.choice(characters) for i in range(length)), with draws[i]
\* the index of the character that random.choice picks for position i
join_choices(length, draws) == [i \in 1 .. length |-> characters[draws[i]]]

\* the codes generate_access_code(length) may return; of the 36^length the
\* model draws the first MaxCodes codes that repeat one character
generate_access_code(length) ==
    { join_choices(length, [i \in 1 .. length |-> k]) : k \in 1 .. MaxCodes }

\* str.upper() of one character
UpperChar(ch) ==
    IF \E k \in 1 .. Len(ascii_lowercase) : ascii_lowercase[k] = ch
    THEN ascii_uppercase[CHOOSE k \in 1 .. Len(ascii_lowercase) : ascii_lowercase[k] = ch]
    ELSE ch

upper(str) == [i \in 1 .. Len(str) |-> UpperChar(str[i])]

RECURSIVE lstrip(_)
lstrip(str) == IF str # <<>> /\ Head(str) = " " THEN lstrip(Tail(str)) ELSE str

RECURSIVE rstrip(_)
rstrip(str) ==
    IF str # <<>> /\ str[Len(str)] = " " THEN rstrip(SubSeq(str, 1, Len(str) - 1)) ELSE str

strip(str) == rstrip(lstrip(str))

----------------------------------------------------------------------------
(* st.session_state and the script run *)

\* a key that is not in a dict: an index or a score that is not set
NoIndex == -1
NoScore == -1

\* 'quiz_to_take' not in st.session_state
NoQuizToTake == [present |-> FALSE]

\* st.session_state after the first script run
NewSession ==
    [mode |-> "HOME", new_quiz_title |-> "", sub_quizzes |-> <<>>, last_code |-> <<>>,
     quiz_to_take |-> NoQuizToTake, final_score |-> NoScore,
     current_quiz_id |-> NoIndex]

\* no input widget of the taker pages holds a value
NoWidget == [key |-> <<>>, value |-> PyNone]
\* the widget key of the name input (question widgets are keyed by database ids)
NameKey == <<0, 0>>

\* no progress bar is on the page
NoProgress == [questions_completed |-> NoIndex, total_questions |-> NoIndex]

NewUi == [rerun |-> FALSE, widget |-> NoWidget, progress |-> NoProgress]

\* the script of session s is not running and no rerun is queued: the page is
\* rendered and waits for the user
Waiting(s) == conn[s].pc = "idle" /\ ~ui[s].rerun

\* the value the widget `key` returns in this run: the value it holds, or its
\* default when it was not on the page of the last run
WidgetValue(s, key, default) ==
    IF ui[s].widget.key = key THEN ui[s].widget.value ELSE default

----------------------------------------------------------------------------
(* taker_mode: the quiz-taking session *)

\* choice['ui_id'] = string.ascii_lowercase[idx]
WithUiIds(sub_quizzes_data) ==
    [i \in 1 .. Len(sub_quizzes_data) |->
        [sub_quizzes_data[i] EXCEPT !.questions =
            [j \in 1 .. Len(@) |->
                IF @[j].type # "OPEN_TEXT"
                THEN [@[j] EXCEPT !.choices =
                        [k \in 1 .. Len(@) |->
                            [id |-> @[k].id, text |-> @[k].text,
                             is_correct |-> @[k].is_correct, ui_id |-> ascii_lowercase[k]]]]
                ELSE @[j]]]]

\* the quiz_to_take dict built after a successful lookup
NewQuizToTake(found) ==
    [present |-> TRUE,
     id |-> found.quiz_doc_id,
     data |-> found.quiz_data,
     sub_quizzes |-> WithUiIds(json_loads(found.quiz_data.sub_quizzes_json)),
     taker_name |-> "",
     answers |-> <<>>,
     current_step |-> "NAME_INPUT",
     current_subquiz_index |-> NoIndex,
     current_question_index |-> NoIndex]

\* answers.setdefault(key, value): a key that is there keeps its value
SetAnswer_keep_first(answers, key, value) ==
    IF \E i \in 1 .. Len(answers) : answers[i].key = key
    THEN answers
    ELSE Append(answers, [key |-> key, value |-> value])

\* answers[key] = value on a dict kept in insertion order
SetAnswer(answers, key, value) ==
    IF \E i \in 1 .. Len(answers) : answers[i].key = key
    THEN [i \in 1 .. Len(answers) |->
            IF answers[i].key = key THEN [key |-> key, value |-> value] ELSE answers[i]]
    ELSE Append(answers, [key |-> key, value |-> value])

\* the question the cursor exposes (Python indexes from 0)
InQuiz(qt) ==
    /\ qt.present
    /\ qt.current_step = "QUIZ_ACTIVE"
    /\ qt.current_subquiz_index < Len(qt.sub_quizzes)
    /\ qt.current_question_index < Len(qt.sub_quizzes[qt.current_subquiz_index + 1].questions)

CurrentSubQuiz(qt) == qt.sub_quizzes[qt.current_subquiz_index + 1]
CurrentQuestion(qt) == CurrentSubQuiz(qt).questions[qt.current_question_index + 1]
QuestionKey(qt) == <<CurrentSubQuiz(qt).id, CurrentQuestion(qt).id>>

\* next((c for c in choices if c['ui_id'] == selected_ui_key), None)['id']
SelectedChoiceId(question, selected_ui_key) ==
    LET i == CHOOSE i \in 1 .. Len(question.choices) :
                /\ question.choices[i].ui_id = selected_ui_key
                /\ \A j \in 1 .. i - 1 : question.choices[j].ui_id # selected_ui_key
    IN  PyId(question.choices[i].id)

RECURSIVE CheckedIds(_, _)
\* the ids of the ticked checkboxes, appended in the order of the choices
CheckedIds(choices, ticked) ==
    IF choices = <<>> THEN <<>>
    ELSE (IF Head(choices).ui_id \in ticked THEN <<Head(choices).id>> ELSE <<>>)
         \o CheckedIds(Tail(choices), ticked)

\* what the text area of an OPEN_TEXT question may hold
Texts == {"", "free text"}

\* what the taker may enter as a name
Names == {"", "Ann"}

\* the values the input widgets of a question can return
AnswerValues(question) ==
    CASE question.type = "SINGLE_CHOICE" ->
            {SelectedChoiceId(question, question.choices[i].ui_id) : i \in 1 .. Len(question.choices)}
      [] question.type = "MULTI_SELECT" ->
            {PyList(CheckedIds(question.choices, ticked)) :
                ticked \in SUBSET {question.choices[i].ui_id : i \in 1 .. Len(question.choices)}}
      [] OTHER -> {PyText(t) : t \in Texts}

\* the value of a question's widgets before the taker touches them: the first
\* radio option, no checkbox ticked, an empty text area
DefaultAnswer(question) ==
    CASE question.type = "SINGLE_CHOICE" ->
            IF question.choices = <<>> THEN PyNone
            ELSE SelectedChoiceId(question, question.choices[1].ui_id)
      [] question.type = "MULTI_SELECT" -> PyList(<<>>)
      [] OTHER -> PyText("")

----------------------------------------------------------------------------
(* submit_results: scoring of the recorded answers *)

RECURSIVE ListRepr(_)
\* the items of str(list of id strings), e.g. '1', '2'
ListRepr(ids) ==
    IF ids = <<>> THEN ""
    ELSE "'" \o ToString(Head(ids)) \o "'"
         \o (IF Tail(ids) = <<>> THEN "" ELSE ", " \o ListRepr(Tail(ids)))

\* str(submitted)
str(submitted) ==
    CASE submitted.py = "str" -> ToString(submitted.v)
      [] submitted.py = "list" -> "[" \o ListRepr(submitted.v) \o "]"
      [] submitted.py = "text" -> submitted.v
      [] OTHER -> "None"

RECURSIVE QuestionEntries(_)
\* the items of question_lookup, in the order the loops set them:
\* f"{subquiz['id']}_{question['id']}" -> question
QuestionEntries(sub_quizzes_data) ==
    IF sub_quizzes_data = <<>> THEN <<>>
    ELSE LET subquiz == Head(sub_quizzes_data)
         IN  [j \in 1 .. Len(subquiz.questions) |->
                [key |-> <<subquiz.id, subquiz.questions[j].id>>,
                 question |-> subquiz.questions[j]]]
             \o QuestionEntries(Tail(sub_quizzes_data))

HasKey(entries, session_key) == \E i \in 1 .. Len(entries) : entries[i].key = session_key

\* question_lookup.get(session_key): a later item of the same key replaces an earlier one
question_lookup(entries, session_key) ==
    entries[CHOOSE i \in 1 .. Len(entries) :
                /\ entries[i].key = session_key
                /\ \A j \in i + 1 .. Len(entries) : entries[j].key # session_key].question

\* submitted is None or submitted == []
Unanswered(submitted) ==
    submitted.py = "None" \/ (submitted.py = "list" /\ submitted.v = <<>>)

\* one item of answers_to_insert
ScoredAnswer(q_data, submitted) ==
    LET r == IF Unanswered(submitted) THEN ScoreResult(0, FALSE)
             ELSE score_answer(q_data, submitted)
    IN  [stmt |-> "Answers",
         question_id |-> q_data.id,
         submitted |-> IF Unanswered(submitted) THEN "N/A" ELSE str(submitted),
         is_correct |-> IF r.correct THEN 1 ELSE 0,
         score |-> r.score,
         raised |-> r.raised]

RECURSIVE AnswersToInsert(_, _)
\* answers_to_insert: one item per recorded answer whose key names a question
AnswersToInsert(answers, entries) ==
    IF answers = <<>> THEN <<>>
    ELSE (IF HasKey(entries, Head(answers).key)
          THEN <<ScoredAnswer(question_lookup(entries, Head(answers).key), Head(answers).value)>>
          ELSE <<>>)
         \o AnswersToInsert(Tail(answers), entries)

\* total_score = score instead of total_score += score
SumScores_last(items) == IF items = <<>> THEN 0 ELSE items[Len(items)].score

RECURSIVE SumScores(_)
\* total_score
SumScores(items) == IF items = <<>> THEN 0 ELSE Head(items).score + SumScores(Tail(items))

\* the INSERT statements of one submit_results call
SubmitInserts(quiz_state) ==
    LET answers_to_insert == AnswersToInsert(quiz_state.answers, QuestionEntries(quiz_state.sub_quizzes))
    IN  << [stmt |-> "QuizTakers", quiz_id |-> quiz_state.id,
            taker_name |-> quiz_state.taker_name,
            total_score |-> SumScores(answers_to_insert)] >>
        \o answers_to_insert

----------------------------------------------------------------------------
(* Actions: navigation and the quiz-taking session *)

SetMode(s, mode) ==
    /\ session_state' = [session_state EXCEPT ![s].mode = mode]
    /\ ui' = [ui EXCEPT ![s].rerun = TRUE]

\* main: the sidebar buttons
NavHome(s) ==
    /\ Waiting(s)
    /\ SetMode(s, "HOME")
    /\ UNCHANGED <<tables, lastrowid, conn, scored>>

NavCreator(s) ==
    /\ Waiting(s)
    /\ SetMode(s, "CREATOR")
    /\ UNCHANGED <<tables, lastrowid, conn, scored>>

NavTaker(s) ==
    /\ Waiting(s)
    /\ SetMode(s, "TAKER")
    /\ UNCHANGED <<tables, lastrowid, conn, scored>>

\* the access codes a taker types in: the codes the generator draws, one of
\* them in lower case between blanks, blanks only, nothing
TypedCodes ==
    generate_access_code(CodeLength)
    \cup { <<" ">> \o [i \in 1 .. CodeLength |-> ascii_lowercase[1]] \o <<" ">>, <<" ">>, <<>> }

\* taker_mode, no quiz_to_take: "Find Quiz" pressed with `typed` in the input
FindQuiz(s, typed, connected) ==
    LET access_code == upper(strip(typed))
        found == IF connected /\ access_code # <<>> THEN get_quiz_by_code(access_code) ELSE {}
    IN  /\ Waiting(s)
        /\ session_state[s].mode = "TAKER"
        /\ ~session_state[s].quiz_to_take.present
        /\ lastrowid["QuizTakers"] < MaxSubmits
        /\ IF found # {}
           THEN \E f \in found :
                   /\ session_state' = [session_state EXCEPT ![s].quiz_to_take = NewQuizToTake(f)]
                   /\ ui' = [ui EXCEPT ![s].rerun = TRUE]
           ELSE UNCHANGED <<session_state, ui>>
        /\ UNCHANGED <<tables, lastrowid, conn, scored>>

\* taker_mode, NAME_INPUT: the name input changed
EnterName(s, name) ==
    /\ Waiting(s)
    /\ session_state[s].mode = "TAKER"
    /\ session_state[s].quiz_to_take.present
    /\ session_state[s].quiz_to_take.current_step = "NAME_INPUT"
    /\ session_state' = [session_state EXCEPT ![s].quiz_to_take.taker_name = name]
    /\ ui' = [ui EXCEPT ![s].widget = [key |-> NameKey, value |-> PyText(name)]]
    /\ UNCHANGED <<tables, lastrowid, conn, scored>>

\* "Start Quiz" offered whatever the name
StartQuiz_unnamed(s) ==
    /\ Waiting(s)
    /\ session_state[s].mode = "TAKER"
    /\ session_state[s].quiz_to_take.present
    /\ session_state[s].quiz_to_take.current_step = "NAME_INPUT"
    /\ session_state' = [session_state EXCEPT
            ![s].quiz_to_take.current_step = "QUIZ_ACTIVE",
            ![s].quiz_to_take.current_subquiz_index = 0,
            ![s].quiz_to_take.current_question_index = 0]
    /\ ui' = [ui EXCEPT ![s].rerun = TRUE]
    /\ UNCHANGED <<tables, lastrowid, conn, scored>>

\* taker_mode, NAME_INPUT: "Start Quiz", offered only while the name is not empty
StartQuiz(s) ==
    /\ Waiting(s)
    /\ session_state[s].mode = "TAKER"
    /\ session_state[s].quiz_to_take.present
    /\ session_state[s].quiz_to_take.current_step = "NAME_INPUT"
    /\ session_state[s].quiz_to_take.taker_name # ""
    /\ session_state' = [session_state EXCEPT
            ![s].quiz_to_take.current_step = "QUIZ_ACTIVE",
            ![s].quiz_to_take.current_subquiz_index = 0,
            ![s].quiz_to_take.current_question_index = 0]
    /\ ui' = [ui EXCEPT ![s].rerun = TRUE]
    /\ UNCHANGED <<tables, lastrowid, conn, scored>>

\* the taker sees a question: taker_mode got past both completion checks
Exposed(s) ==
    /\ Waiting(s)
    /\ session_state[s].mode = "TAKER"
    /\ InQuiz(session_state[s].quiz_to_take)

\* taker_mode, QUIZ_ACTIVE: the taker changes the input of the current question
AnswerQuestion(s) ==
    LET qt == session_state[s].quiz_to_take
    IN  /\ Exposed(s)
        /\ \E value \in AnswerValues(CurrentQuestion(qt)) :
              /\ session_state' = [session_state EXCEPT
                      ![s].quiz_to_take.answers = SetAnswer(@, QuestionKey(qt), value)]
              /\ ui' = [ui EXCEPT ![s].widget = [key |-> QuestionKey(qt), value |-> value]]
        /\ UNCHANGED <<tables, lastrowid, conn, scored>>

\* taker_mode, QUIZ_ACTIVE: "Next Question"
NextQuestion(s) ==
    LET qt == session_state[s].quiz_to_take
    IN  /\ Exposed(s)
        /\ session_state' = [session_state EXCEPT
                ![s].quiz_to_take.answers =
                    SetAnswer(@, QuestionKey(qt),
                              WidgetValue(s, QuestionKey(qt), DefaultAnswer(CurrentQuestion(qt)))),
                ![s].quiz_to_take.current_question_index = @ + 1]
        /\ ui' = [ui EXCEPT ![s].rerun = TRUE]
        /\ UNCHANGED <<tables, lastrowid, conn, scored>>

\* quiz_complete_mode: "Start New Quiz"
StartNewQuiz(s) ==
    /\ Waiting(s)
    /\ session_state[s].mode = "QUIZ_COMPLETE"
    /\ session_state' = [session_state EXCEPT
            ![s].quiz_to_take = NoQuizToTake,
            ![s].final_score = NoScore,
            ![s].mode = "HOME"]
    /\ ui' = [ui EXCEPT ![s].rerun = TRUE]
    /\ UNCHANGED <<tables, lastrowid, conn, scored>>

----------------------------------------------------------------------------
(* create_quiz_mode: the choices of a question *)

\* the check for a question without any choice: len(question['choices']) < 1
TooFewChoices_none(tree) ==
    UNION {{<<i, j>> : j \in {jj \in 1 .. Len(tree[i].questions) :
                                /\ tree[i].questions[jj].type # "OPEN_TEXT"
                                /\ Len(tree[i].questions[jj].choices) < 1}}
              : i \in 1 .. Len(tree)}

\* the positions <<module, question>> of the choice questions that
\* create_quiz_mode finds with fewer than two choices
TooFewChoices(tree) ==
    UNION {{<<i, j>> : j \in {jj \in 1 .. Len(tree[i].questions) :
                                /\ tree[i].questions[jj].type # "OPEN_TEXT"
                                /\ Len(tree[i].questions[jj].choices) < 2}}
              : i \in 1 .. Len(tree)}

\* the choices create_quiz_mode gives such a question
RegeneratedChoices ==
    << [id |-> "a", text |-> "Choice A", is_correct |-> FALSE],
       [id |-> "b", text |-> "Choice B", is_correct |-> FALSE] >>

\* the letters random.choices(string.ascii_lowercase, k=1) may draw for the id
\* of an added choice: one that the default choices use and one that they
\* do not
NewChoiceIds == {ascii_lowercase[1], ascii_lowercase[4]}

\* del choices[c_idx]
RemoveAt(seq, c_idx) ==
    [k \in 1 .. Len(seq) - 1 |-> IF k < c_idx THEN seq[k] ELSE seq[k + 1]]

----------------------------------------------------------------------------
(* Actions: a script run that no button started (st.rerun(), or the user's rerun) *)

\* the page of session s holds no input widget whose value the model keeps
StaticPage(s) ==
    \/ /\ session_state[s].mode \notin {"TAKER", "VIEW_RESULTS"}
       /\ ~(session_state[s].mode = "CREATE_QUIZ" /\ TooFewChoices(session_state[s].sub_quizzes) # {})
    \/ /\ session_state[s].mode = "TAKER"
       /\ ~session_state[s].quiz_to_take.present

\* main renders a page that changes nothing; widgets that are not on it lose
\* their value
RenderPage(s) ==
    /\ conn[s].pc = "idle"
    /\ StaticPage(s)
    /\ ui' = [ui EXCEPT ![s] = NewUi]
    /\ UNCHANGED <<tables, lastrowid, session_state, conn, scored>>

\* taker_mode, NAME_INPUT: taker_name is assigned the value of the name input
RenderNameInput(s) ==
    LET name == WidgetValue(s, NameKey, PyText(""))
    IN  /\ conn[s].pc = "idle"
        /\ session_state[s].mode = "TAKER"
        /\ session_state[s].quiz_to_take.present
        /\ session_state[s].quiz_to_take.current_step = "NAME_INPUT"
        /\ session_state' = [session_state EXCEPT ![s].quiz_to_take.taker_name = name.v]
        /\ ui' = [ui EXCEPT ![s] = [rerun |-> FALSE, widget |-> [key |-> NameKey, value |-> name],
                                        progress |-> NoProgress]]
        /\ UNCHANGED <<tables, lastrowid, conn, scored>>

RECURSIVE total_questions(_)
\* sum(len(sq['questions']) for sq in sub_quizzes)
total_questions(sub_quizzes) ==
    IF sub_quizzes = <<>> THEN 0
    ELSE Len(Head(sub_quizzes).questions) + total_questions(Tail(sub_quizzes))

\* the progress counted through the current module: range(sq_idx + 1)
questions_completed_inclusive(sub_quizzes, sq_idx, q_idx) ==
    total_questions(SubSeq(sub_quizzes, 1, sq_idx + 1)) + q_idx

\* sum(len(sub_quizzes[i]['questions']) for i in range(sq_idx)) + q_idx
questions_completed(sub_quizzes, sq_idx, q_idx) ==
    total_questions(SubSeq(sub_quizzes, 1, sq_idx)) + q_idx

\* taker_mode, QUIZ_ACTIVE: the current question is shown with the progress of
\* the taker, and the value of its input is stored in answers
RenderQuestion(s) ==
    LET qt == session_state[s].quiz_to_take
        value == WidgetValue(s, QuestionKey(qt), DefaultAnswer(CurrentQuestion(qt)))
    IN  /\ conn[s].pc = "idle"
        /\ session_state[s].mode = "TAKER"
        /\ InQuiz(qt)
        /\ session_state' = [session_state EXCEPT
                ![s].quiz_to_take.answers = SetAnswer(@, QuestionKey(qt), value)]
        /\ ui' = [ui EXCEPT ![s] = [rerun |-> FALSE,
                                    widget |-> [key |-> QuestionKey(qt), value |-> value],
                                    progress |->
                                        [questions_completed |->
                                            questions_completed(qt.sub_quizzes,
                                                                qt.current_subquiz_index,
                                                                qt.current_question_index),
                                         total_questions |-> total_questions(qt.sub_quizzes)]]]
        /\ UNCHANGED <<tables, lastrowid, conn, scored>>

\* the move to the next module without the reset of the question index
NextSubQuiz_no_reset(s) ==
    LET qt == session_state[s].quiz_to_take
    IN  /\ conn[s].pc = "idle"
        /\ session_state[s].mode = "TAKER"
        /\ qt.present
        /\ qt.current_step = "QUIZ_ACTIVE"
        /\ qt.current_subquiz_index < Len(qt.sub_quizzes)
        /\ qt.current_question_index >= Len(CurrentSubQuiz(qt).questions)
        /\ session_state' = [session_state EXCEPT
                ![s].quiz_to_take.current_subquiz_index = @ + 1]
        /\ ui' = [ui EXCEPT ![s].rerun = TRUE]
        /\ UNCHANGED <<tables, lastrowid, conn, scored>>

\* taker_mode, QUIZ_ACTIVE: the question index passed the module's last
\* question: move to the next module and rerun
NextSubQuiz(s) ==
    LET qt == session_state[s].quiz_to_take
    IN  /\ conn[s].pc = "idle"
        /\ session_state[s].mode = "TAKER"
        /\ qt.present
        /\ qt.current_step = "QUIZ_ACTIVE"
        /\ qt.current_subquiz_index < Len(qt.sub_quizzes)
        /\ qt.current_question_index >= Len(CurrentSubQuiz(qt).questions)
        /\ session_state' = [session_state EXCEPT
                ![s].quiz_to_take.current_subquiz_index = @ + 1,
                ![s].quiz_to_take.current_question_index = 0]
        /\ ui' = [ui EXCEPT ![s].rerun = TRUE]
        /\ UNCHANGED <<tables, lastrowid, conn, scored>>

----------------------------------------------------------------------------
(* Actions: submit_results *)

\* the completion check one module early
submit_due_early(qt) == qt.current_subquiz_index >= Len(qt.sub_quizzes) - 1

\* sq_idx >= len(sub_quizzes)
submit_due(qt) == qt.current_subquiz_index >= Len(qt.sub_quizzes)

\* taker_mode, QUIZ_ACTIVE: the module index passed the last module:
\* submit_results() connects, scores and opens its transaction
SubmitResults(s, connected) ==
    LET qt == session_state[s].quiz_to_take
        inserts == SubmitInserts(qt)
    IN  /\ conn[s].pc = "idle"
        /\ session_state[s].mode = "TAKER"
        /\ qt.present
        /\ qt.current_step = "QUIZ_ACTIVE"
        /\ submit_due(qt)
        /\ lastrowid["QuizTakers"] < MaxSubmits
        /\ IF connected /\ \A i \in 1 .. Len(inserts) : i = 1 \/ ~inserts[i].raised
           THEN conn' = [conn EXCEPT ![s] =
                            [IdleConn EXCEPT !.pc = "submit", !.todo = inserts,
                                             !.total_score = inserts[1].total_score]]
           ELSE UNCHANGED conn
        /\ ui' = [ui EXCEPT ![s] = NewUi]
        /\ UNCHANGED <<tables, lastrowid, session_state, scored>>

\* cursor.execute of the next INSERT of the transaction
SubmitResultsInsert(s) ==
    /\ conn[s].pc = "submit"
    /\ conn[s].todo # <<>>
    /\ LET r == ExecInsert(conn[s], lastrowid, Head(conn[s].todo))
       IN  /\ conn' = [conn EXCEPT ![s] = [r.c EXCEPT !.todo = Tail(conn[s].todo)]]
           /\ lastrowid' = r.last
    /\ UNCHANGED <<tables, session_state, ui, scored>>

\* the commit without the change of mode
SubmitResultsCommit_same_mode(s) ==
    /\ conn[s].pc = "submit"
    /\ conn[s].todo = <<>>
    /\ Persist(commit(conn[s]))
    /\ session_state' = [session_state EXCEPT ![s].final_score = conn[s].total_score]
    /\ ui' = [ui EXCEPT ![s].rerun = TRUE]
    /\ conn' = [conn EXCEPT ![s] = IdleConn]
    /\ UNCHANGED <<lastrowid, scored>>

\* conn.commit(), then mode and final_score are set and the script reruns
SubmitResultsCommit(s) ==
    /\ conn[s].pc = "submit"
    /\ conn[s].todo = <<>>
    /\ Persist(commit(conn[s]))
    /\ session_state' = [session_state EXCEPT
            ![s].mode = "QUIZ_COMPLETE",
            ![s].final_score = conn[s].total_score]
    /\ ui' = [ui EXCEPT ![s].rerun = TRUE]
    /\ conn' = [conn EXCEPT ![s] = IdleConn]
    /\ UNCHANGED <<lastrowid, scored>>

\* the failure handled as if the commit had gone through
SubmitResultsError_completes(s) ==
    /\ conn[s].pc = "submit"
    /\ Persist(rollback(conn[s]))
    /\ session_state' = [session_state EXCEPT
            ![s].mode = "QUIZ_COMPLETE",
            ![s].final_score = conn[s].total_score]
    /\ ui' = [ui EXCEPT ![s].rerun = TRUE]
    /\ conn' = [conn EXCEPT ![s] = IdleConn]
    /\ UNCHANGED <<lastrowid, scored>>

\* an execute or the commit raises mysql.connector.Error: conn.rollback()
SubmitResultsError(s) ==
    /\ conn[s].pc = "submit"
    /\ Persist(rollback(conn[s]))
    /\ conn' = [conn EXCEPT ![s] = IdleConn]
    /\ UNCHANGED <<lastrowid, session_state, ui, scored>>

----------------------------------------------------------------------------
(* Actions: creator_mode, create_quiz_mode, quiz_saved_mode *)

\* creator_mode: "Create New Quiz"
CreateNewQuiz(s) ==
    /\ Waiting(s)
    /\ session_state[s].mode = "CREATOR"
    /\ lastrowid["Quizzes"] < MaxSaves
    /\ session_state' = [session_state EXCEPT
            ![s].mode = "CREATE_QUIZ",
            ![s].new_quiz_title = "New Injection Molding Quiz",
            ![s].sub_quizzes = <<generate_subquiz_data(1)>>]
    /\ ui' = [ui EXCEPT ![s].rerun = TRUE]
    /\ UNCHANGED <<tables, lastrowid, conn, scored>>

\* create_quiz_mode: "Add New Sub-Quiz"
AddSubQuiz(s) ==
    /\ Waiting(s)
    /\ session_state[s].mode = "CREATE_QUIZ"
    /\ Len(session_state[s].sub_quizzes) < MaxSubQuizzes
    /\ session_state' = [session_state EXCEPT
            ![s].sub_quizzes = Append(@, generate_subquiz_data(Len(@) + 1))]
    /\ ui' = [ui EXCEPT ![s].rerun = TRUE]
    /\ UNCHANGED <<tables, lastrowid, conn, scored>>

\* create_quiz_mode: "Add Question to <module>"
AddQuestion(s) ==
    /\ Waiting(s)
    /\ session_state[s].mode = "CREATE_QUIZ"
    /\ \E sq_idx \in 1 .. Len(session_state[s].sub_quizzes) :
          /\ Len(session_state[s].sub_quizzes[sq_idx].questions) < MaxQuestions
          /\ session_state' = [session_state EXCEPT
                  ![s].sub_quizzes[sq_idx].questions =
                      Append(@, generate_question_data(Len(@) + 1))]
    /\ ui' = [ui EXCEPT ![s].rerun = TRUE]
    /\ UNCHANGED <<tables, lastrowid, conn, scored>>

\* create_quiz_mode: the Type select box of a question changed
SetQuestionType(s) ==
    /\ Waiting(s)
    /\ session_state[s].mode = "CREATE_QUIZ"
    /\ \E sq_idx \in 1 .. Len(session_state[s].sub_quizzes) :
          \E q_idx \in 1 .. Len(session_state[s].sub_quizzes[sq_idx].questions) :
              \E type \in QuestionTypes :
                  /\ type # session_state[s].sub_quizzes[sq_idx].questions[q_idx].type
                  /\ session_state' = [session_state EXCEPT
                          ![s].sub_quizzes[sq_idx].questions[q_idx].type = type]
    /\ UNCHANGED <<tables, lastrowid, ui, conn, scored>>

\* create_quiz_mode: the "Correct" checkbox of a choice changed
ToggleCorrect(s) ==
    /\ Waiting(s)
    /\ session_state[s].mode = "CREATE_QUIZ"
    /\ \E sq_idx \in 1 .. Len(session_state[s].sub_quizzes) :
          \E q_idx \in 1 .. Len(session_state[s].sub_quizzes[sq_idx].questions) :
              LET question == session_state[s].sub_quizzes[sq_idx].questions[q_idx]
              IN  /\ question.type # "OPEN_TEXT"
                  /\ \E c_idx \in 1 .. Len(question.choices) :
                        session_state' = [session_state EXCEPT
                            ![s].sub_quizzes[sq_idx].questions[q_idx].choices[c_idx].is_correct
                                = ~@]
    /\ UNCHANGED <<tables, lastrowid, ui, conn, scored>>

\* create_quiz_mode: "Add Choice"
AddChoice(s) ==
    /\ Waiting(s)
    /\ session_state[s].mode = "CREATE_QUIZ"
    /\ \E sq_idx \in 1 .. Len(session_state[s].sub_quizzes) :
          \E q_idx \in 1 .. Len(session_state[s].sub_quizzes[sq_idx].questions) :
              LET question == session_state[s].sub_quizzes[sq_idx].questions[q_idx]
              IN  /\ question.type # "OPEN_TEXT"
                  /\ Len(question.choices) < MaxChoices
                  /\ \E new_choice_id \in NewChoiceIds :
                        session_state' = [session_state EXCEPT
                            ![s].sub_quizzes[sq_idx].questions[q_idx].choices =
                                Append(@, [id |-> new_choice_id,
                                           text |-> "Choice " \o UpperChar(new_choice_id),
                                           is_correct |-> FALSE])]
    /\ ui' = [ui EXCEPT ![s].rerun = TRUE]
    /\ UNCHANGED <<tables, lastrowid, conn, scored>>

\* create_quiz_mode: the "X" button of a choice
RemoveChoice(s) ==
    /\ Waiting(s)
    /\ session_state[s].mode = "CREATE_QUIZ"
    /\ \E sq_idx \in 1 .. Len(session_state[s].sub_quizzes) :
          \E q_idx \in 1 .. Len(session_state[s].sub_quizzes[sq_idx].questions) :
              LET question == session_state[s].sub_quizzes[sq_idx].questions[q_idx]
              IN  /\ question.type # "OPEN_TEXT"
                  /\ \E c_idx \in 1 .. Len(question.choices) :
                        session_state' = [session_state EXCEPT
                            ![s].sub_quizzes[sq_idx].questions[q_idx].choices =
                                RemoveAt(@, c_idx)]
    /\ ui' = [ui EXCEPT ![s].rerun = TRUE]
    /\ UNCHANGED <<tables, lastrowid, conn, scored>>

\* create_quiz_mode, a script run that no button started: the first choice
\* question left with fewer than two choices gets two new ones, none of them
\* correct, and the script reruns
RegenerateChoices(s) ==
    /\ conn[s].pc = "idle"
    /\ session_state[s].mode = "CREATE_QUIZ"
    /\ \E p \in TooFewChoices(session_state[s].sub_quizzes) :
          /\ \A p2 \in TooFewChoices(session_state[s].sub_quizzes) :
                p[1] < p2[1] \/ (p[1] = p2[1] /\ p[2] <= p2[2])
          /\ session_state' = [session_state EXCEPT
                  ![s].sub_quizzes[p[1]].questions[p[2]].choices = RegeneratedChoices]
    /\ ui' = [ui EXCEPT ![s] = [NewUi EXCEPT !.rerun = TRUE]]
    /\ UNCHANGED <<tables, lastrowid, conn, scored>>

\* quiz_saved_mode: "Back to Dashboard"
BackToDashboard(s) ==
    /\ Waiting(s)
    /\ session_state[s].mode = "QUIZ_SAVED"
    /\ SetMode(s, "CREATOR")
    /\ UNCHANGED <<tables, lastrowid, conn, scored>>

----------------------------------------------------------------------------
(* Actions: save_quiz *)

\* create_quiz_mode: "Save and Generate Code": save_quiz() connects, reads the
\* title and the tree and opens its transaction
SaveQuiz(s, connected) ==
    /\ Waiting(s)
    /\ session_state[s].mode = "CREATE_QUIZ"
    /\ lastrowid["Quizzes"] < MaxSaves
    /\ IF connected
       THEN conn' = [conn EXCEPT ![s] =
                        [IdleConn EXCEPT
                            !.pc = "save",
                            !.todo = SaveInserts(session_state[s].new_quiz_title,
                                                 session_state[s].sub_quizzes)]]
       ELSE UNCHANGED conn
    /\ UNCHANGED <<tables, lastrowid, session_state, ui, scored>>

\* cursor.execute of the next INSERT of the transaction; the Quizzes row
\* carries a code that generate_access_code() has just drawn
SaveQuizInsert(s) ==
    /\ conn[s].pc = "save"
    /\ conn[s].todo # <<>>
    /\ \E code \in generate_access_code(CodeLength) :
          LET st == Head(conn[s].todo)
              c  == IF st.stmt = "Quizzes"
                    THEN [conn[s] EXCEPT !.access_code = code]
                    ELSE conn[s]
              r  == ExecInsert(c, lastrowid, st)
          IN  /\ st.stmt # "Quizzes" => code = conn[s].access_code
              /\ conn' = [conn EXCEPT ![s] = [r.c EXCEPT !.todo = Tail(conn[s].todo)]]
              /\ lastrowid' = r.last
    /\ UNCHANGED <<tables, session_state, ui, scored>>

\* conn.commit(), then mode and last_code are set and the script reruns
SaveQuizCommit(s) ==
    /\ conn[s].pc = "save"
    /\ conn[s].todo = <<>>
    /\ Persist(commit(conn[s]))
    /\ session_state' = [session_state EXCEPT
            ![s].mode = "QUIZ_SAVED",
            ![s].last_code = conn[s].access_code]
    /\ ui' = [ui EXCEPT ![s].rerun = TRUE]
    /\ conn' = [conn EXCEPT ![s] = IdleConn]
    /\ UNCHANGED <<lastrowid, scored>>

\* start_transaction, an execute or the commit raises mysql.connector.Error:
\* conn.rollback()
SaveQuizError(s) ==
    /\ conn[s].pc = "save"
    /\ Persist(rollback(conn[s]))
    /\ conn' = [conn EXCEPT ![s] = IdleConn]
    /\ UNCHANGED <<lastrowid, session_state, ui, scored>>

----------------------------------------------------------------------------
(* The quiz-taking specification: one saved quiz, taker sessions *)

\* score_answer has not been called
NotScored == <<>>

\* a fresh store
NoIds == [n \in TableNames |-> 0]

\* the default question i with its type, points and correctness flags edited
EditedQuestion(i, type, points, flags) ==
    [generate_question_data(i) EXCEPT
        !.type = type,
        !.points = points,
        !.choices = [k \in 1 .. Len(@) |-> [@[k] EXCEPT !.is_correct = flags[k]]]]

\* the trees the taken quiz is saved from: a first module with a single choice
\* question of 1 point and a multi select question of 2 points, a second module
\* with an open text question; the author ticked the correct choices
TakeTrees ==
    { << [generate_subquiz_data(1) EXCEPT !.questions =
            << EditedQuestion(1, "SINGLE_CHOICE", 1, single),
               EditedQuestion(2, "MULTI_SELECT", 2, multi) >>],
         [generate_subquiz_data(2) EXCEPT !.questions =
            << EditedQuestion(1, "OPEN_TEXT", 1, <<TRUE, FALSE, FALSE>>) >>] >>
      : single \in {<<FALSE, TRUE, FALSE>>, <<FALSE, FALSE, FALSE>>},
        multi \in {<<TRUE, TRUE, FALSE>>, <<FALSE, FALSE, FALSE>>} }

\* the store after save_quiz committed `tree` under `code` on a fresh store
SavedStore(title, tree, code) ==
    ExecAll([IdleConn EXCEPT !.access_code = code], NoIds, SaveInserts(title, tree))

InitTake ==
    \E tree \in TakeTrees :
        \E code \in {c \in generate_access_code(CodeLength) : c[1] = ascii_uppercase[1]} :
            LET saved == SavedStore("New Injection Molding Quiz", tree, code)
            IN  /\ Quizzes = saved.c.rows["Quizzes"]
                /\ SubQuizzes = saved.c.rows["SubQuizzes"]
                /\ Questions = saved.c.rows["Questions"]
                /\ Choices = saved.c.rows["Choices"]
                /\ QuizTakers = {}
                /\ Answers = {}
                /\ lastrowid = saved.last
                /\ session_state = [s \in Sessions |-> NewSession]
                /\ ui = [s \in Sessions |-> NewUi]
                /\ conn = [s \in Sessions |-> IdleConn]
                /\ scored = NotScored

NextTake ==
    \E s \in TakerSessions :
        \/ NavHome(s)
        \/ NavCreator(s)
        \/ NavTaker(s)
        \/ \E typed \in TypedCodes : \E connected \in BOOLEAN : FindQuiz(s, typed, connected)
        \/ \E name \in Names : EnterName(s, name)
        \/ StartQuiz(s)
        \/ AnswerQuestion(s)
        \/ NextQuestion(s)
        \/ StartNewQuiz(s)
        \/ RenderPage(s)
        \/ RenderNameInput(s)
        \/ RenderQuestion(s)
        \/ NextSubQuiz(s)
        \/ \E connected \in BOOLEAN : SubmitResults(s, connected)
        \/ SubmitResultsInsert(s)
        \/ SubmitResultsCommit(s)
        \/ SubmitResultsError(s)

SpecTake == InitTake /\ [][NextTake]_vars

----------------------------------------------------------------------------
(* The authoring specification: one author builds quizzes and saves them *)

InitAuthor ==
    /\ Quizzes = {} /\ SubQuizzes = {} /\ Questions = {} /\ Choices = {}
    /\ QuizTakers = {} /\ Answers = {}
    /\ lastrowid = NoIds
    /\ session_state = [s \in Sessions |-> NewSession]
    /\ ui = [s \in Sessions |-> NewUi]
    /\ conn = [s \in Sessions |-> IdleConn]
    /\ scored = NotScored

NextAuthor ==
    \E s \in {1} :
        \/ NavCreator(s)
        \/ RenderPage(s)
        \/ CreateNewQuiz(s)
        \/ AddSubQuiz(s)
        \/ AddQuestion(s)
        \/ SetQuestionType(s)
        \/ BackToDashboard(s)
        \/ \E connected \in BOOLEAN : SaveQuiz(s, connected)
        \/ SaveQuizInsert(s)
        \/ SaveQuizCommit(s)
        \/ SaveQuizError(s)

SpecAuthor == InitAuthor /\ [][NextAuthor]_vars

----------------------------------------------------------------------------
(* The choice editing specification: one author edits the choices of the
   question of a new quiz and saves it *)

NextEdit ==
    \E s \in {1} :
        \/ NavCreator(s)
        \/ RenderPage(s)
        \/ CreateNewQuiz(s)
        \/ SetQuestionType(s)
        \/ ToggleCorrect(s)
        \/ AddChoice(s)
        \/ RemoveChoice(s)
        \/ RegenerateChoices(s)
        \/ BackToDashboard(s)
        \/ \E connected \in BOOLEAN : SaveQuiz(s, connected)
        \/ SaveQuizInsert(s)
        \/ SaveQuizCommit(s)
        \/ SaveQuizError(s)

SpecEdit == InitAuthor /\ [][NextEdit]_vars

----------------------------------------------------------------------------
(* The saving specification: author sessions set the types of their questions
   and save their quizzes concurrently *)

NextSave ==
    \E s \in AuthorSessions :
        \/ NavCreator(s)
        \/ RenderPage(s)
        \/ CreateNewQuiz(s)
        \/ SetQuestionType(s)
        \/ BackToDashboard(s)
        \/ \E connected \in BOOLEAN : SaveQuiz(s, connected)
        \/ SaveQuizInsert(s)
        \/ SaveQuizCommit(s)
        \/ SaveQuizError(s)

SpecSave == InitAuthor /\ [][NextSave]_vars

----------------------------------------------------------------------------
(* The scoring specification: score_answer applied to one question and one
   submitted value *)

\* choices of a scored question
MaxScoreChoices == 3
\* points of a scored question (the Points input allows 1 to 10)
MaxScorePoints == 2

\* the ChoiceID before the first choice of a scored question: ids 1, 2, 3 or
\* 9, 10, 11, which Python orders as the strings '10' < '11' < '9'
ScoreBases == {0, 8}

\* the questions as get_quiz_by_code and taker_mode hand them to score_answer
ScoreQuestions ==
    { [id |-> 1, text |-> "Question 1 text", type |-> type, points |-> points,
       choices |-> IF type = "OPEN_TEXT" THEN <<>>
                   ELSE [k \in DOMAIN flags |->
                            [id |-> base + k, text |-> "Choice", is_correct |-> flags[k],
                             ui_id |-> ascii_lowercase[k]]]]
      : type \in QuestionTypes, points \in 1 .. MaxScorePoints, base \in ScoreBases,
        flags \in UNION {[1 .. n -> BOOLEAN] : n \in 2 .. MaxScoreChoices} }

\* every list without repetition over the ids S
Orderings(S) ==
    { seq \in UNION {[1 .. k -> S] : k \in 0 .. Cardinality(S)} :
        \A i, j \in 1 .. Len(seq) : i # j => seq[i] # seq[j] }

ChoiceIds(question) == {question.choices[k].id : k \in 1 .. Len(question.choices)}

\* the values submitted for a question: nothing, or a value of the kind its
\* input yields (one id, also one that is no choice of the question; the ids of
\* any ticked checkboxes in any order; a text)
Submissions(question) ==
    {PyNone} \cup
    (CASE question.type = "SINGLE_CHOICE" -> {PyId(id) : id \in ChoiceIds(question) \cup {99}}
       [] question.type = "MULTI_SELECT" -> {PyList(seq) : seq \in Orderings(ChoiceIds(question))}
       [] OTHER -> {PyText(t) : t \in Texts})

InitScore ==
    /\ Quizzes = {} /\ SubQuizzes = {} /\ Questions = {} /\ Choices = {}
    /\ QuizTakers = {} /\ Answers = {}
    /\ lastrowid = NoIds
    /\ session_state = [s \in Sessions |-> NewSession]
    /\ ui = [s \in Sessions |-> NewUi]
    /\ conn = [s \in Sessions |-> IdleConn]
    /\ \E question \in ScoreQuestions :
          \E submitted \in Submissions(question) :
              scored = [question |-> question, submitted |-> submitted, called |-> FALSE,
                        result |-> ScoreResult(0, FALSE)]

\* score_answer(question, submitted_answer) is called and returns or raises
ScoreAnswer ==
    /\ ~scored.called
    /\ scored' = [scored EXCEPT !.called = TRUE,
                                !.result = score_answer(scored.question, scored.submitted)]
    /\ UNCHANGED <<tables, lastrowid, session_state, ui, conn>>

NextScore == ScoreAnswer

SpecScore == InitScore /\ [][NextScore]_vars

----------------------------------------------------------------------------
(* Properties of score_answer, checked under SpecScore *)

\* choice k of the question is the first one flagged correct
FirstCorrect(question, k) ==
    /\ question.choices[k].is_correct
    /\ \A j \in 1 .. k - 1 : ~question.choices[j].is_correct

Range(seq) == {seq[i] : i \in 1 .. Len(seq)}

\* C7: for a MULTI_SELECT question and a submitted list of ids, score_answer
\* returns (points, true) if and only if the submitted ids, as a set, are exactly
\* the ids of the choices flagged correct; a proper subset, a proper superset or
\* any other set yields (0, false); and every other ordering of the same ids is
\* scored the same.
C7_MultiSelectScore ==
    (/\ scored.called
     /\ scored.question.type = "MULTI_SELECT"
     /\ scored.submitted.py = "list")
    => LET q == scored.question
           correct_set == {q.choices[k].id : k \in {k \in 1 .. Len(q.choices) : q.choices[k].is_correct}}
           exact == Range(scored.submitted.v) = correct_set
       IN  /\ ~scored.result.raised
           /\ exact => scored.result.score = q.points /\ scored.result.correct
           /\ ~exact => scored.result.score = 0 /\ ~scored.result.correct
           /\ \A other \in Orderings(Range(scored.submitted.v)) :
                 Len(other) = Len(scored.submitted.v)
                 => score_answer(q, PyList(other)) = scored.result

\* C7 witness: the correct ids 9 and 10 were submitted as [9, 10], which is not
\* their order as strings ('10' < '9'), and gave full points
C7_Witness ==
    /\ scored.called
    /\ scored.question.type = "MULTI_SELECT"
    /\ scored.submitted = PyList(<<9, 10>>)
    /\ scored.result = ScoreResult(scored.question.points, TRUE)

\* the submission is absent or empty: None, an empty list, an empty text
AbsentOrEmpty(submitted) ==
    \/ submitted.py = "None"
    \/ submitted.py = "list" /\ submitted.v = <<>>
    \/ submitted.py = "text" /\ submitted.v = ""

\* C9 (as claimed): for a question of any type, also a choice question with no
\* choice flagged correct, score_answer scores an absent or empty submission as
\* (0, false) and does not raise.
C9_AbsentScoresZero ==
    (scored.called /\ AbsentOrEmpty(scored.submitted))
    => /\ ~scored.result.raised
       /\ scored.result.score = 0
       /\ ~scored.result.correct

----------------------------------------------------------------------------
(* Properties of the quiz-taking session and of submit_results, checked
   under SpecTake *)

\* the cursor of session s passed the last module
PastEnd(s) ==
    /\ session_state[s].quiz_to_take.present
    /\ session_state[s].quiz_to_take.current_step = "QUIZ_ACTIVE"
    /\ session_state[s].quiz_to_take.current_subquiz_index
          >= Len(session_state[s].quiz_to_take.sub_quizzes)

\* the QuestionIDs the session recorded an answer for
AnsweredIds(s) ==
    {session_state[s].quiz_to_take.answers[i].key[2] :
        i \in 1 .. Len(session_state[s].quiz_to_take.answers)}

\* C2: submit_results is all-or-nothing. Every step leaves QuizTakers and
\* Answers as they were (also an insert inside the transaction and a failure
\* of the QuizTakers insert, of an Answers insert or of the commit), unless it
\* is the commit of a running submit_results, which adds the attempt whole:
\* its one QuizTakers row and one Answers row for each recorded answer, all
\* under the TakerID of that row.
C2_SubmitAllOrNothing ==
    [][ \/ UNCHANGED <<QuizTakers, Answers>>
        \/ \E s \in Sessions :
                    /\ conn[s].pc = "submit"
                    /\ conn'[s].pc = "idle"
                    /\ session_state'[s].mode = "QUIZ_COMPLETE"
                    /\ \E t \in QuizTakers' \ QuizTakers :
                          /\ QuizTakers' = QuizTakers \cup {t}
                          /\ Answers \subseteq Answers'
                          /\ \A a \in Answers' \ Answers : a.TakerID = t.TakerID
                          /\ {a.QuestionID : a \in Answers' \ Answers} = AnsweredIds(s)
                          /\ Cardinality(Answers' \ Answers) = Cardinality(AnsweredIds(s))
                          /\ \A a \in Answers : a.TakerID # t.TakerID ]_vars

\* C2 witness: a first attempt failed after its QuizTakers row was inserted
\* (TakerID 1 is used up and nowhere in the tables), a second one committed:
\* its row is there with its three answers
C2_Witness ==
    /\ \A s \in Sessions : conn[s].pc = "idle"
    /\ lastrowid["QuizTakers"] = 2
    /\ {t.TakerID : t \in QuizTakers} = {2}
    /\ {a.TakerID : a \in Answers} = {2}
    /\ Cardinality(Answers) = 3

\* C3 (as claimed): a session that reached COMPLETE (its final score is set and
\* its quiz_to_take is still the completed one) never commits again, whatever
\* the user does next: no step of such a session adds a QuizTakers or an
\* Answers row.
C3_CompleteWritesOnce ==
    [][ \A s \in Sessions :
           (session_state[s].final_score # NoScore /\ conn[s].pc = "submit")
           => UNCHANGED <<QuizTakers, Answers>> ]_vars

\* the type of the question with this QuestionID
TypeOf(question_id) ==
    (CHOOSE q \in Questions : q.QuestionID = question_id).Question_Type

\* the rows of Answers, committed or inside an open transaction
AnswerRows == Answers \cup UNION {conn[s].rows["Answers"] : s \in Sessions}

\* C8: scoring an OPEN_TEXT question gives (0, false) for every text, the empty
\* text too, and every Answers row recorded for an OPEN_TEXT question carries
\* Is_Correct = 0 and Score_Achieved = 0.
C8_OpenTextZero ==
    /\ \A a \in AnswerRows :
          TypeOf(a.QuestionID) = "OPEN_TEXT" => a.Is_Correct = 0 /\ a.Score_Achieved = 0
    /\ \A s \in Sessions :
          session_state[s].quiz_to_take.present =>
             LET entries == QuestionEntries(session_state[s].quiz_to_take.sub_quizzes)
             IN  \A i \in 1 .. Len(entries) : \A t \in Texts :
                    entries[i].question.type = "OPEN_TEXT"
                    => score_answer(entries[i].question, PyText(t)) = ScoreResult(0, FALSE)

\* C8 witness: two attempts are committed, one with a text and one with the
\* empty text as the answer to the OPEN_TEXT question
C8_Witness ==
    \E a1, a2 \in Answers :
        /\ TypeOf(a1.QuestionID) = "OPEN_TEXT"
        /\ a1.QuestionID = a2.QuestionID
        /\ a1.Submitted_Answer = "free text"
        /\ a2.Submitted_Answer = ""

\* C10: nothing is written before the cursor passes the last module. A session
\* whose cursor has not passed the last module (it is in LOOKUP, in NAME_INPUT,
\* or ACTIVE inside the quiz) has no submit_results running, before and after
\* every step, and QuizTakers and Answers change only in a step taken while a
\* submit_results is running.
C10_AbandonLeavesNoTrace ==
    [][ /\ \A s \in Sessions :
              ~PastEnd(s) => conn[s].pc # "submit" /\ conn'[s].pc # "submit"
        /\ (\A s \in Sessions : conn[s].pc # "submit") => UNCHANGED <<QuizTakers, Answers>>
      ]_vars

\* C10 witness: a taker answered questions, is still inside the quiz and left
\* for the home page; QuizTakers and Answers are empty
C10_Witness ==
    \E s \in Sessions :
        /\ session_state[s].mode = "HOME"
        /\ ~ui[s].rerun
        /\ InQuiz(session_state[s].quiz_to_take)
        /\ Len(session_state[s].quiz_to_take.answers) >= 2
        /\ QuizTakers = {}
        /\ Answers = {}

----------------------------------------------------------------------------
(* Claims about save_quiz *)

\* the positions <<module, question>> of the questions of an authored tree
QuestionPositions(tree) ==
    UNION {{<<i, j>> : j \in 1 .. Len(tree[i].questions)} : i \in 1 .. Len(tree)}

\* the positions <<module, question, choice>> of the choices that belong to a
\* question with choices
ChoicePositions(tree) ==
    UNION {{<<p[1], p[2], k>> : k \in 1 .. Len(tree[p[1]].questions[p[2]].choices)} :
              p \in {pp \in QuestionPositions(tree) :
                        tree[pp[1]].questions[pp[2]].type # "OPEN_TEXT"}}

\* C1: save_quiz is all-or-nothing. Every step leaves the four quiz tables as
\* they were (also an insert inside the transaction and the failure of any
\* insert or of the commit, at whatever point of the tree), unless it is the
\* commit of a running save_quiz, which adds the authored tree whole: its one
\* Quizzes row, one SubQuizzes row for each module under that quiz, one
\* Questions row for each question under those modules and one Choices row for
\* each choice under those questions.
C1_SaveAllOrNothing ==
    [][ \/ UNCHANGED <<Quizzes, SubQuizzes, Questions, Choices>>
        \/ \E s \in Sessions :
                    /\ conn[s].pc = "save"
                    /\ conn'[s].pc = "idle"
                    /\ session_state'[s].mode = "QUIZ_SAVED"
                    /\ \E q \in Quizzes' \ Quizzes :
                          LET tree == session_state[s].sub_quizzes
                              newSubQuizzes == SubQuizzes' \ SubQuizzes
                              newQuestions == Questions' \ Questions
                              newChoices == Choices' \ Choices
                          IN  /\ Quizzes' = Quizzes \cup {q}
                              /\ SubQuizzes \subseteq SubQuizzes'
                              /\ Questions \subseteq Questions'
                              /\ Choices \subseteq Choices'
                              /\ \A sq \in newSubQuizzes : sq.QuizID = q.QuizID
                              /\ Cardinality(newSubQuizzes) = Len(tree)
                              /\ \A qn \in newQuestions :
                                    \E sq \in newSubQuizzes : qn.SubQuizID = sq.SubQuizID
                              /\ Cardinality(newQuestions)
                                    = Cardinality(QuestionPositions(tree))
                              /\ \A ch \in newChoices :
                                    \E qn \in newQuestions : ch.QuestionID = qn.QuestionID
                              /\ Cardinality(newChoices)
                                    = Cardinality(ChoicePositions(tree)) ]_vars

\* C1 witness: a save_quiz call failed after it had inserted its Quizzes row,
\* rows of both modules and choices (their ids are used up), it has returned,
\* and none of the four tables holds a row
C1_Witness ==
    /\ \A s \in Sessions : conn[s].pc = "idle"
    /\ lastrowid["Quizzes"] >= 1
    /\ lastrowid["SubQuizzes"] >= 2
    /\ lastrowid["Choices"] >= 1
    /\ Quizzes = {} /\ SubQuizzes = {} /\ Questions = {} /\ Choices = {}

\* C4 (as claimed): in every reachable state no two persisted Quizzes rows
\* carry the same access code, also when two save_quiz calls run concurrently
\* and generate the same code
C4_UniqueAccessCodes ==
    \A q1 \in Quizzes : \A q2 \in Quizzes :
        q1.Access_Code = q2.Access_Code => q1.QuizID = q2.QuizID

\* C5 (as claimed): save_quiz does not go on with a generated code that equals
\* the code of an already persisted quiz (it draws a new one and retries): the
\* Quizzes row a call inserts never carries the code of a quiz that is
\* persisted at the time of the insert
C5_CollisionRetries ==
    [][ \A s \in Sessions :
           \A q \in conn'[s].rows["Quizzes"] \ conn[s].rows["Quizzes"] :
               \A p \in Quizzes : p.Access_Code # q.Access_Code ]_vars

----------------------------------------------------------------------------
(* Claims about save_quiz followed by get_quiz_by_code *)

\* the loaded tree equals the authored one in everything but the ids: the
\* modules in order with their titles, their questions in order with text,
\* type and points, and the choices of each choice question in order with text
\* and correctness
SameTree(authored, loaded) ==
    /\ Len(loaded) = Len(authored)
    /\ \A i \in 1 .. Len(authored) :
          /\ loaded[i].title = authored[i].title
          /\ Len(loaded[i].questions) = Len(authored[i].questions)
          /\ \A j \in 1 .. Len(authored[i].questions) :
                LET a == authored[i].questions[j]
                    l == loaded[i].questions[j]
                IN  /\ l.text = a.text
                    /\ l.type = a.type
                    /\ l.points = a.points
                    /\ a.type # "OPEN_TEXT" =>
                          /\ Len(l.choices) = Len(a.choices)
                          /\ \A k \in 1 .. Len(a.choices) :
                                /\ l.choices[k].text = a.choices[k].text
                                /\ l.choices[k].is_correct = a.choices[k].is_correct

\* C11 (as claimed): round trip. While a session shows the code save_quiz
\* returned for its tree (mode QUIZ_SAVED), get_quiz_by_code called with that
\* code finds a quiz, with the title of the session's quiz and a tree equal to
\* the session's tree in everything but the ids
C11_RoundTrip ==
    \A s \in Sessions :
        session_state[s].mode = "QUIZ_SAVED" =>
            /\ get_quiz_by_code(session_state[s].last_code) # {}
            /\ \A f \in get_quiz_by_code(session_state[s].last_code) :
                  /\ f.quiz_data.title = session_state[s].new_quiz_title
                  /\ SameTree(session_state[s].sub_quizzes,
                              json_loads(f.quiz_data.sub_quizzes_json))

----------------------------------------------------------------------------
(* Claims about create_quiz_mode and save_quiz *)

\* C12 (as claimed): save is refused when validation fails. Whatever the
\* author did to the choices before pressing save, every persisted
\* SINGLE_CHOICE or MULTI_SELECT question has at least one choice with
\* Is_Correct = 1
C12_SavedQuestionHasCorrectChoice ==
    \A q \in Questions :
        q.Question_Type # "OPEN_TEXT" =>
            \E c \in Choices : c.QuestionID = q.QuestionID /\ c.Is_Correct = 1

----------------------------------------------------------------------------
(* Claims about the scores of a committed attempt *)

RECURSIVE SumF(_, _)
\* the sum of f[x] over the x in S
SumF(f, S) ==
    IF S = {} THEN 0
    ELSE LET x == CHOOSE y \in S : TRUE
         IN  f[x] + SumF(f, S \ {x})

\* the Points of the persisted question an Answers row belongs to
PointsOf(question_id) == (CHOOSE q \in Questions : q.QuestionID = question_id).Points

\* C13: the step that commits an attempt persists a QuizTakers row whose
\* Total_Score is the sum of Score_Achieved over the Answers rows of the
\* attempt, which is the sum of the Points of the questions whose Answers row
\* is marked correct; the final score the session shows in QUIZ_COMPLETE is
\* that Total_Score
C13_TotalScoreIsSum ==
    [][ \A s \in Sessions :
           \A t \in QuizTakers' \ QuizTakers :
               conn[s].pc = "submit" /\ conn'[s].pc = "idle" =>
                  LET rows == {a \in Answers' : a.TakerID = t.TakerID}
                  IN  /\ t.Total_Score = SumF([a \in rows |-> a.Score_Achieved], rows)
                      /\ t.Total_Score
                            = SumF([a \in rows |-> IF a.Is_Correct = 1
                                                   THEN PointsOf(a.QuestionID) ELSE 0], rows)
                      /\ session_state'[s].mode = "QUIZ_COMPLETE"
                      /\ session_state'[s].final_score = t.Total_Score ]_vars

\* C13 witness: an attempt is committed with Total_Score 3: the single choice
\* question of 1 point and the multi select question of 2 points are marked
\* correct, the open text question is not, and the session shows 3
C13_Witness ==
    \E s \in Sessions : \E t \in QuizTakers :
        /\ session_state[s].mode = "QUIZ_COMPLETE"
        /\ session_state[s].final_score = 3
        /\ t.Total_Score = 3
        /\ Cardinality({a \in Answers : a.TakerID = t.TakerID}) = 3
        /\ \E a1, a2 \in Answers :
              /\ a1.TakerID = t.TakerID /\ a2.TakerID = t.TakerID
              /\ a1.Is_Correct = 1 /\ a1.Score_Achieved = 1
              /\ a2.Is_Correct = 1 /\ a2.Score_Achieved = 2

----------------------------------------------------------------------------
(* Claims about the steps of the quiz-taking session *)

\* C14: "Find Quiz" in LOOKUP. When the typed code, without the blanks around
\* it and in upper case, is empty or the code of no persisted quiz (or the
\* store cannot be reached), nothing changes: the session stays in LOOKUP
\* without a quiz_to_take. When it is the code of a persisted quiz, the session
\* gets a quiz_to_take for that quiz in step NAME_INPUT with no answers and an
\* empty taker name, and nothing else changes.
C14_Lookup ==
    [][ \A s \in Sessions : \A typed \in TypedCodes : \A connected \in BOOLEAN :
           FindQuiz(s, typed, connected) =>
              LET code == upper(strip(typed))
                  hits == {q \in Quizzes : q.Access_Code = code}
              IN  IF connected /\ code # <<>> /\ hits # {}
                  THEN /\ session_state'[s].quiz_to_take.present
                       /\ session_state'[s].quiz_to_take.current_step = "NAME_INPUT"
                       /\ session_state'[s].quiz_to_take.answers = <<>>
                       /\ session_state'[s].quiz_to_take.taker_name = ""
                       /\ \E q \in hits :
                             /\ session_state'[s].quiz_to_take.id = q.QuizID
                             /\ session_state'[s].quiz_to_take.data.title = q.Title
                       /\ session_state' = [session_state EXCEPT
                               ![s].quiz_to_take = session_state'[s].quiz_to_take]
                       /\ UNCHANGED <<tables, lastrowid, conn>>
                  ELSE UNCHANGED <<session_state, ui, tables, lastrowid, conn>> ]_vars

\* C14 witness: a lookup has just resolved: the session holds a quiz_to_take in
\* NAME_INPUT with no answers and no name, and the rerun it asked for is due
C14_Witness ==
    \E s \in Sessions :
        /\ session_state[s].mode = "TAKER"
        /\ session_state[s].quiz_to_take.present
        /\ session_state[s].quiz_to_take.current_step = "NAME_INPUT"
        /\ session_state[s].quiz_to_take.answers = <<>>
        /\ session_state[s].quiz_to_take.taker_name = ""
        /\ ui[s].rerun

\* the session is in step ACTIVE
Active(qt) == qt.present /\ qt.current_step = "QUIZ_ACTIVE"

\* C15: a session is in ACTIVE only with a taker name that is not empty, and
\* every persisted attempt carries such a name; a session enters ACTIVE from
\* NAME_INPUT only, with the name it had there, and with the cursor at module
\* 0, question 0. (No session is in ACTIVE and no attempt is persisted in the
\* initial state; the formula constrains the state after every step.)
C15_ActiveNeedsName ==
    [][ /\ \A t \in QuizTakers' : t.Taker_Name # ""
        /\ \A s \in Sessions :
              LET qt == session_state[s].quiz_to_take
                  qt2 == session_state'[s].quiz_to_take
              IN  /\ Active(qt2) => qt2.taker_name # ""
                  /\ Active(qt2) /\ ~Active(qt) =>
                        /\ qt.present
                        /\ qt.current_step = "NAME_INPUT"
                        /\ qt.taker_name # ""
                        /\ qt2.taker_name = qt.taker_name
                        /\ qt2.current_subquiz_index = 0
                        /\ qt2.current_question_index = 0 ]_vars

\* C15 witness: a named taker has just pressed "Start Quiz": the session is in
\* ACTIVE at module 0, question 0, nothing is answered yet and the rerun is due
C15_Witness ==
    \E s \in Sessions :
        /\ Active(session_state[s].quiz_to_take)
        /\ session_state[s].quiz_to_take.taker_name = "Ann"
        /\ session_state[s].quiz_to_take.current_subquiz_index = 0
        /\ session_state[s].quiz_to_take.current_question_index = 0
        /\ session_state[s].quiz_to_take.answers = <<>>
        /\ ui[s].rerun

\* the number of questions of module sq (counted from 0) of the taken quiz
QuestionCount(qt, sq) == Len(qt.sub_quizzes[sq + 1].questions)

\* the cursor points at a question of the quiz
CursorInRange(qt) ==
    /\ 0 <= qt.current_subquiz_index
    /\ qt.current_subquiz_index < Len(qt.sub_quizzes)
    /\ 0 <= qt.current_question_index
    /\ qt.current_question_index < QuestionCount(qt, qt.current_subquiz_index)

\* C16: the cursor of a session in ACTIVE. "Next Question" adds one to the
\* question index and leaves the module index alone; the cursor moves in no
\* other way than by that step, taken from a question of the quiz, and by the
\* step that adds one to the module index and resets the question index to 0,
\* taken when the question index equals the module's question count. A step
\* that shows a question, records its answer or leaves it is taken only with
\* the cursor on a question of the quiz. So the cursor visits the questions
\* once each, module by module and question by question, and never moves back.
C16_CursorAdvances ==
    [][ \A s \in Sessions :
           LET qt == session_state[s].quiz_to_take
               qt2 == session_state'[s].quiz_to_take
               sq == qt.current_subquiz_index
               q == qt.current_question_index
               sq2 == qt2.current_subquiz_index
               q2 == qt2.current_question_index
           IN  /\ NextQuestion(s) => Active(qt2) /\ sq2 = sq /\ q2 = q + 1
               /\ RenderQuestion(s) \/ AnswerQuestion(s) \/ NextQuestion(s)
                     => CursorInRange(qt)
               /\ Active(qt) /\ Active(qt2) =>
                     /\ qt2.sub_quizzes = qt.sub_quizzes
                     /\ \/ sq2 = sq /\ q2 = q
                        \/ CursorInRange(qt) /\ sq2 = sq /\ q2 = q + 1
                        \/ /\ 0 <= sq /\ sq < Len(qt.sub_quizzes)
                           /\ q = QuestionCount(qt, sq)
                           /\ sq2 = sq + 1 /\ q2 = 0 ]_vars

\* C16 witness: the cursor has left the two questions of the first module, in
\* order, and shows the question of the second module: three answers are
\* recorded and the page waits for the taker
C16_Witness ==
    \E s \in Sessions :
        /\ Exposed(s)
        /\ session_state[s].quiz_to_take.current_subquiz_index = 1
        /\ session_state[s].quiz_to_take.current_question_index = 0
        /\ Len(session_state[s].quiz_to_take.answers) = 3

----------------------------------------------------------------------------
(* The progress specification: a taker steps through quizzes whose modules
   have up to MaxProgressQuestions questions *)

MaxProgressQuestions == 3

\* quizzes of one or two modules of default questions
ProgressTrees ==
    { [i \in 1 .. Len(sizes) |->
          [generate_subquiz_data(i) EXCEPT !.questions =
              [j \in 1 .. sizes[i] |-> generate_question_data(j)]]]
      : sizes \in UNION {[1 .. n -> 1 .. MaxProgressQuestions] : n \in 1 .. MaxSubQuizzes} }

InitProgress ==
    \E tree \in ProgressTrees :
        \E code \in {c \in generate_access_code(CodeLength) : c[1] = ascii_uppercase[1]} :
            LET saved == SavedStore("New Injection Molding Quiz", tree, code)
            IN  /\ Quizzes = saved.c.rows["Quizzes"]
                /\ SubQuizzes = saved.c.rows["SubQuizzes"]
                /\ Questions = saved.c.rows["Questions"]
                /\ Choices = saved.c.rows["Choices"]
                /\ QuizTakers = {}
                /\ Answers = {}
                /\ lastrowid = saved.last
                /\ session_state = [s \in Sessions |-> NewSession]
                /\ ui = [s \in Sessions |-> NewUi]
                /\ conn = [s \in Sessions |-> IdleConn]
                /\ scored = NotScored

NextProgress ==
    \E s \in TakerSessions :
        \/ NavTaker(s)
        \/ \E typed \in TypedCodes : \E connected \in BOOLEAN : FindQuiz(s, typed, connected)
        \/ \E name \in Names : EnterName(s, name)
        \/ StartQuiz(s)
        \/ NextQuestion(s)
        \/ RenderPage(s)
        \/ RenderNameInput(s)
        \/ RenderQuestion(s)
        \/ NextSubQuiz(s)

SpecProgress == InitProgress /\ [][NextProgress]_vars

\* the question counts of the modules of a taken quiz
ModuleSizes(qt) == [i \in 1 .. Len(qt.sub_quizzes) |-> Len(qt.sub_quizzes[i].questions)]

\* C17: whenever a question is exposed, the progress on the page is
\* questions_completed = the question counts of the modules before the current
\* one, summed, plus the question index, and total_questions = the sum of all
\* modules' question counts, with 0 <= questions_completed < total_questions;
\* with modules of 3 and 2 questions and the cursor on the second module at
\* question index 1 the page reports 4 of 5.
C17_Progress ==
    \A s \in Sessions :
        Exposed(s) =>
            LET qt == session_state[s].quiz_to_take
                sizes == ModuleSizes(qt)
                shown == ui[s].progress
            IN  /\ shown.questions_completed
                      = SumF(sizes, 1 .. qt.current_subquiz_index) + qt.current_question_index
                /\ shown.total_questions = SumF(sizes, DOMAIN sizes)
                /\ 0 <= shown.questions_completed
                /\ shown.questions_completed < shown.total_questions
                /\ (sizes = <<3, 2>> /\ qt.current_subquiz_index = 1
                                     /\ qt.current_question_index = 1)
                      => shown.questions_completed = 4 /\ shown.total_questions = 5

\* C17 witness: modules of 3 and 2 questions, the second question of the second
\* module is exposed and the page reports 4 of 5
C17_Witness ==
    \E s \in Sessions :
        /\ Exposed(s)
        /\ ModuleSizes(session_state[s].quiz_to_take) = <<3, 2>>
        /\ session_state[s].quiz_to_take.current_subquiz_index = 1
        /\ session_state[s].quiz_to_take.current_question_index = 1
        /\ ui[s].progress = [questions_completed |-> 4, total_questions |-> 5]

----------------------------------------------------------------------------
(* get_quiz_by_code, query by query. Every cursor.execute of a reader is a
   step of its own, so that the steps of a writer on another connection come
   between them. A query returns committed rows only. The rows of a quiz are
   committed together and never changed, so that a query on them returns the
   same rows whether it reads the snapshot of the first query or the rows
   committed by now. *)

RECURSIVE NextQuery(_)
\* the loops of get_quiz_by_code move on to the next statement that queries
\* the store: the questions of module r.sq when r.q = 0, else the choices of
\* its question r.q; an OPEN_TEXT question issues no query
NextQuery(r) ==
    IF r.sq > Len(r.subquizzes_raw) THEN [r EXCEPT !.step = "return"]
    ELSE IF r.q = 0 THEN [r EXCEPT !.step = "questions"]
    ELSE IF r.q > Len(r.sub_quizzes[r.sq].questions)
         THEN NextQuery([r EXCEPT !.sq = @ + 1, !.q = 0])
    ELSE IF r.sub_quizzes[r.sq].questions[r.q].type = "OPEN_TEXT"
         THEN NextQuery([r EXCEPT !.q = @ + 1])
    ELSE [r EXCEPT !.step = "choices"]

\* taker_mode, no quiz_to_take: "Find Quiz" pressed with `typed` in the input;
\* get_quiz_by_code connects and runs the Quizzes query
FindQuizBegin(s, typed, connected) ==
    LET access_code == upper(strip(typed))
        quiz_header == IF connected /\ access_code # <<>>
                       THEN FetchOne({q \in Quizzes : q.Access_Code = access_code})
                       ELSE {}
    IN  /\ Waiting(s)
        /\ session_state[s].mode = "TAKER"
        /\ ~session_state[s].quiz_to_take.present
        /\ lastrowid["QuizTakers"] < MaxSubmits
        /\ IF quiz_header # {}
           THEN \E h \in quiz_header :
                   conn' = [conn EXCEPT ![s] =
                       [IdleConn EXCEPT
                           !.pc = "get_quiz",
                           !.read = [step |-> "subquizzes", access_code |-> access_code,
                                     quiz_header |-> h, subquizzes_raw |-> <<>>,
                                     sub_quizzes |-> <<>>, sq |-> 1, q |-> 0]]]
           ELSE UNCHANGED conn
        /\ UNCHANGED <<tables, lastrowid, session_state, ui, scored>>

\* the SubQuizzes query
GetSubQuizzes(s) ==
    LET r == conn[s].read
        subquizzes_raw == OrderByIndex({sq \in SubQuizzes : sq.QuizID = r.quiz_header.QuizID})
    IN  /\ conn[s].pc = "get_quiz"
        /\ r.step = "subquizzes"
        /\ conn' = [conn EXCEPT ![s].read =
                        NextQuery([r EXCEPT !.subquizzes_raw = subquizzes_raw])]
        /\ UNCHANGED <<tables, lastrowid, session_state, ui, scored>>

\* the Questions query of the current module; the module is kept with its
\* questions, whose choices the next queries fill in
GetQuestions(s) ==
    LET r == conn[s].read
        sq_raw == r.subquizzes_raw[r.sq]
        questions_raw == OrderByIndex({q \in Questions : q.SubQuizID = sq_raw.SubQuizID})
        subquiz == [id |-> sq_raw.SubQuizID,
                    title |-> sq_raw.Title,
                    questions |-> [i \in 1 .. Len(questions_raw) |->
                                      [id |-> questions_raw[i].QuestionID,
                                       text |-> questions_raw[i].Question_Text,
                                       type |-> questions_raw[i].Question_Type,
                                       points |-> questions_raw[i].Points,
                                       choices |-> <<>>]]]
    IN  /\ conn[s].pc = "get_quiz"
        /\ r.step = "questions"
        /\ conn' = [conn EXCEPT ![s].read =
                        NextQuery([r EXCEPT !.sub_quizzes = Append(@, subquiz), !.q = 1])]
        /\ UNCHANGED <<tables, lastrowid, session_state, ui, scored>>

\* the Choices query of the current question
GetChoices(s) ==
    LET r == conn[s].read
        q_id == r.sub_quizzes[r.sq].questions[r.q].id
    IN  /\ conn[s].pc = "get_quiz"
        /\ r.step = "choices"
        /\ conn' = [conn EXCEPT ![s].read =
                        NextQuery([r EXCEPT
                            !.sub_quizzes[r.sq].questions[r.q].choices = LoadChoices(q_id),
                            !.q = @ + 1])]
        /\ UNCHANGED <<tables, lastrowid, session_state, ui, scored>>

\* get_quiz_by_code returns (quiz_data, quiz_doc_id); taker_mode builds
\* quiz_to_take from them and reruns
GetQuizReturn(s) ==
    LET r == conn[s].read
        found == [quiz_data |-> [title |-> r.quiz_header.Title,
                                 creator_id |-> r.quiz_header.CreatorUserID,
                                 access_code |-> r.access_code,
                                 sub_quizzes_json |-> json_dumps(r.sub_quizzes)],
                  quiz_doc_id |-> r.quiz_header.QuizID]
    IN  /\ conn[s].pc = "get_quiz"
        /\ r.step = "return"
        /\ session_state' = [session_state EXCEPT ![s].quiz_to_take = NewQuizToTake(found)]
        /\ ui' = [ui EXCEPT ![s].rerun = TRUE]
        /\ conn' = [conn EXCEPT ![s] = IdleConn]
        /\ UNCHANGED <<tables, lastrowid, scored>>

\* a query raises mysql.connector.Error: get_quiz_by_code returns (None, None)
GetQuizError(s) ==
    /\ conn[s].pc = "get_quiz"
    /\ conn' = [conn EXCEPT ![s] = IdleConn]
    /\ UNCHANGED <<tables, lastrowid, session_state, ui, scored>>

----------------------------------------------------------------------------
(* creator_mode and view_results_mode, query by query *)

\* the quizzes get_quiz_list returns for a creator
get_quiz_list(creator) ==
    { [id |-> q.QuizID, title |-> q.Title] : q \in {q \in Quizzes : q.CreatorUserID = creator} }

\* creator_mode: "View Results" of a listed quiz. The list is the one of the
\* last run; quizzes are never deleted, and a run in between lists every quiz
\* committed by now
ViewResults(s) ==
    /\ Waiting(s)
    /\ session_state[s].mode = "CREATOR"
    /\ \E quiz \in get_quiz_list(user_id) :
          session_state' = [session_state EXCEPT
              ![s].mode = "VIEW_RESULTS",
              ![s].current_quiz_id = quiz.id]
    /\ ui' = [ui EXCEPT ![s].rerun = TRUE]
    /\ UNCHANGED <<tables, lastrowid, conn, scored>>

\* the lists a query ORDER BY Total_Score DESC may return: rows of equal score
\* come in any order
OrderByScoreDesc(rows) ==
    { seq \in [1 .. Cardinality(rows) -> rows] :
        /\ \A i, j \in DOMAIN seq : i # j => seq[i] # seq[j]
        /\ \A i, j \in DOMAIN seq : i < j => seq[i].Total_Score >= seq[j].Total_Score }

\* the rows of Answers JOIN Questions JOIN SubQuizzes WHERE A.TakerID = taker_id
\* ORDER BY SQ.Order_Index, Q.Order_Index, as a list
detailed_answers(taker_id) ==
    LET QuestionOf(a) == CHOOSE q \in Questions : q.QuestionID = a.QuestionID
        SubQuizOf(a) == CHOOSE sq \in SubQuizzes : sq.SubQuizID = QuestionOf(a).SubQuizID
        joined == {a \in Answers :
                     /\ a.TakerID = taker_id
                     /\ \E q \in Questions :
                           /\ q.QuestionID = a.QuestionID
                           /\ \E sq \in SubQuizzes : sq.SubQuizID = q.SubQuizID}
        Before(a, b) ==
            \/ SubQuizOf(a).Order_Index < SubQuizOf(b).Order_Index
            \/ /\ SubQuizOf(a).Order_Index = SubQuizOf(b).Order_Index
               /\ QuestionOf(a).Order_Index < QuestionOf(b).Order_Index
        ordered == [i \in 1 .. Cardinality(joined) |->
                       CHOOSE a \in joined : Cardinality({b \in joined : Before(b, a)}) = i - 1]
    IN  [i \in 1 .. Len(ordered) |->
            [subquiz_title |-> SubQuizOf(ordered[i]).Title,
             q_text |-> QuestionOf(ordered[i]).Question_Text,
             q_type |-> QuestionOf(ordered[i]).Question_Type,
             points |-> QuestionOf(ordered[i]).Points,
             submitted |-> ordered[i].Submitted_Answer,
             score_achieved |-> ordered[i].Score_Achieved,
             is_correct |-> ordered[i].Is_Correct]]

\* a script run in mode VIEW_RESULTS: view_results_mode connects and runs the
\* Quizzes query; without a connection, or without the quiz, the run ends
ViewResultsBegin(s, connected) ==
    LET quiz_id == session_state[s].current_quiz_id
        quiz_header == {q \in Quizzes : q.QuizID = quiz_id}
    IN  /\ conn[s].pc = "idle"
        /\ session_state[s].mode = "VIEW_RESULTS"
        /\ IF connected /\ quiz_header # {}
           THEN conn' = [conn EXCEPT ![s] =
                    [IdleConn EXCEPT
                        !.pc = "view_results",
                        !.read = [step |-> "takers", quiz_id |-> quiz_id,
                                  all_results_summary |-> <<>>, results |-> <<>>]]]
           ELSE UNCHANGED conn
        /\ ui' = [ui EXCEPT ![s] = NewUi]
        /\ UNCHANGED <<tables, lastrowid, session_state, scored>>

\* the QuizTakers query
GetTakers(s) ==
    LET r == conn[s].read
    IN  /\ conn[s].pc = "view_results"
        /\ r.step = "takers"
        /\ \E all_results_summary \in
                    OrderByScoreDesc({t \in QuizTakers : t.QuizID = r.quiz_id}) :
              conn' = [conn EXCEPT ![s].read =
                  [r EXCEPT !.all_results_summary = all_results_summary,
                            !.step = IF all_results_summary = <<>> THEN "return"
                                     ELSE "answers"]]
        /\ UNCHANGED <<tables, lastrowid, session_state, ui, scored>>

\* the detailed answers query of the next taker of the summary
GetAnswers(s) ==
    LET r == conn[s].read
        result_summary == r.all_results_summary[Len(r.results) + 1]
        shown == [summary |-> result_summary,
                  detailed_answers |-> detailed_answers(result_summary.TakerID)]
    IN  /\ conn[s].pc = "view_results"
        /\ r.step = "answers"
        /\ conn' = [conn EXCEPT ![s].read =
                  [r EXCEPT !.results = Append(@, shown),
                            !.step = IF Len(r.results) + 1 = Len(r.all_results_summary)
                                     THEN "return" ELSE "answers"]]
        /\ UNCHANGED <<tables, lastrowid, session_state, ui, scored>>

\* the run of view_results_mode ends: the page shows what was read
ViewResultsReturn(s) ==
    /\ conn[s].pc = "view_results"
    /\ conn[s].read.step = "return"
    /\ conn' = [conn EXCEPT ![s] = IdleConn]
    /\ UNCHANGED <<tables, lastrowid, session_state, ui, scored>>

\* a query raises mysql.connector.Error: the run ends with what it has shown
ViewResultsError(s) ==
    /\ conn[s].pc = "view_results"
    /\ conn[s].read.step # "return"
    /\ conn' = [conn EXCEPT ![s] = IdleConn]
    /\ UNCHANGED <<tables, lastrowid, session_state, ui, scored>>

\* view_results_mode: "Back to Dashboard"
BackFromResults(s) ==
    /\ Waiting(s)
    /\ session_state[s].mode = "VIEW_RESULTS"
    /\ SetMode(s, "CREATOR")
    /\ UNCHANGED <<tables, lastrowid, conn, scored>>

----------------------------------------------------------------------------
(* The reading specification: an author saves a quiz and views its results
   while a taker looks the quiz up, takes it and submits, every statement on
   the store a step of its own *)

NextRead ==
    \/ \E s \in AuthorSessions \ TakerSessions :
          \/ NavCreator(s)
          \/ RenderPage(s)
          \/ CreateNewQuiz(s)
          \/ AddSubQuiz(s)
          \/ AddQuestion(s)
          \/ SetQuestionType(s)
          \/ \E connected \in BOOLEAN : SaveQuiz(s, connected)
          \/ SaveQuizInsert(s)
          \/ SaveQuizCommit(s)
          \/ SaveQuizError(s)
          \/ BackToDashboard(s)
          \/ ViewResults(s)
          \/ \E connected \in BOOLEAN : ViewResultsBegin(s, connected)
          \/ GetTakers(s)
          \/ GetAnswers(s)
          \/ ViewResultsReturn(s)
          \/ ViewResultsError(s)
          \/ BackFromResults(s)
    \/ \E s \in TakerSessions :
          \/ NavTaker(s)
          \/ RenderPage(s)
          \/ \E typed \in TypedCodes : \E connected \in BOOLEAN :
                FindQuizBegin(s, typed, connected)
          \/ GetSubQuizzes(s)
          \/ GetQuestions(s)
          \/ GetChoices(s)
          \/ GetQuizReturn(s)
          \/ GetQuizError(s)
          \/ \E name \in Names : EnterName(s, name)
          \/ RenderNameInput(s)
          \/ StartQuiz(s)
          \/ RenderQuestion(s)
          \/ NextQuestion(s)
          \/ NextSubQuiz(s)
          \/ \E connected \in BOOLEAN : SubmitResults(s, connected)
          \/ SubmitResultsInsert(s)
          \/ SubmitResultsCommit(s)
          \/ SubmitResultsError(s)

SpecRead == InitAuthor /\ [][NextRead]_vars

\* the number of questions the store holds for a quiz
QuestionsOfQuiz(quiz_id) ==
    Cardinality({q \in Questions :
                    \E sq \in SubQuizzes : sq.QuizID = quiz_id /\ sq.SubQuizID = q.SubQuizID})

\* one taker of a results page is a whole attempt of the quiz: an answer for
\* every question of the quiz, with scores that add up to the taker's total
WholeAttempt(shown, quiz_id) ==
    /\ Len(shown.detailed_answers) = QuestionsOfQuiz(quiz_id)
    /\ Len(shown.detailed_answers) >= 1
    /\ SumF([i \in DOMAIN shown.detailed_answers |-> shown.detailed_answers[i].score_achieved],
            DOMAIN shown.detailed_answers) = shown.summary.Total_Score

\* C18: a reader never observes a partial write. While get_quiz_by_code runs,
\* the quiz whose header it read is not in an open save_quiz transaction, and
\* the tree it returns is the whole tree of that quiz: at least one module,
\* at least one question in every module, the very rows a single read of the
\* store returns now, and the tree of the session that still shows the saved
\* page of that code. While view_results_mode runs, no taker it read is in an
\* open submit_results transaction and every attempt it has read is whole.
C18_ReadsSeeWholeWrites ==
    \A s \in Sessions :
        /\ conn[s].pc = "get_quiz" =>
              LET r == conn[s].read
              IN  /\ \A w \in Sessions :
                        conn[w].pc = "save" =>
                            \A row \in conn[w].rows["Quizzes"] : row.QuizID # r.quiz_header.QuizID
                  /\ r.step = "return" =>
                        /\ r.sub_quizzes = LoadSubQuizzes(r.quiz_header.QuizID)
                        /\ Len(r.sub_quizzes) >= 1
                        /\ \A i \in DOMAIN r.sub_quizzes : Len(r.sub_quizzes[i].questions) >= 1
                        /\ \A a \in Sessions :
                              /\ session_state[a].mode = "QUIZ_SAVED"
                              /\ session_state[a].last_code = r.access_code
                              /\ Cardinality({q \in Quizzes : q.Access_Code = r.access_code}) = 1
                              => SameTree(session_state[a].sub_quizzes, r.sub_quizzes)
        /\ conn[s].pc = "view_results" =>
              LET r == conn[s].read
              IN  /\ \A i \in DOMAIN r.all_results_summary :
                        \A w \in Sessions :
                            conn[w].pc = "submit" =>
                                \A row \in conn[w].rows["QuizTakers"] :
                                    row.TakerID # r.all_results_summary[i].TakerID
                  /\ \A i \in DOMAIN r.results : WholeAttempt(r.results[i], r.quiz_id)

\* C18 witness: a results page has read a whole attempt while the transaction
\* of another attempt is open with rows of its own, and the taker's quiz came
\* from a get_quiz_by_code that ran query by query
C18_Witness ==
    \E s, w \in Sessions :
        /\ conn[s].pc = "view_results"
        /\ conn[s].read.results # <<>>
        /\ conn[w].pc = "submit"
        /\ conn[w].rows["Answers"] # {}
        /\ session_state[w].quiz_to_take.present

\* C19: a persistence failure leaves the state it started from, ready for a
\* retry. A step in which save_quiz fails (no connection, or an error inside
\* the transaction) leaves the session in mode CREATE_QUIZ with the same tree
\* and title, no handler running and the Quizzes table as it was. A step in
\* which submit_results fails leaves mode, step, cursor, taker name and answers
\* as they were and sets no final score; the completion check still holds and
\* the statements of the attempt are the same, so that the next run submits
\* the same attempt.
C19_FailureKeepsState ==
    [][ \A s \in Sessions :
           /\ SaveQuizError(s) \/ SaveQuiz(s, FALSE) =>
                 /\ session_state'[s].mode = "CREATE_QUIZ"
                 /\ session_state'[s].sub_quizzes = session_state[s].sub_quizzes
                 /\ session_state'[s].new_quiz_title = session_state[s].new_quiz_title
                 /\ conn'[s].pc = "idle"
                 /\ Quizzes' = Quizzes
           /\ SubmitResultsError(s) \/ SubmitResults(s, FALSE) =>
                 LET qt == session_state[s].quiz_to_take
                     qt2 == session_state'[s].quiz_to_take
                 IN  /\ session_state'[s].mode = session_state[s].mode
                     /\ session_state'[s].mode = "TAKER"
                     /\ qt2.current_step = qt.current_step
                     /\ qt2.current_subquiz_index = qt.current_subquiz_index
                     /\ qt2.current_question_index = qt.current_question_index
                     /\ qt2.taker_name = qt.taker_name
                     /\ qt2.answers = qt.answers
                     /\ session_state'[s].final_score = session_state[s].final_score
                     /\ conn'[s].pc = "idle"
                     /\ submit_due(qt2)
                     /\ SubmitInserts(qt2) = SubmitInserts(qt)
                     /\ QuizTakers' = QuizTakers /\ Answers' = Answers ]_vars

\* C19 witness: submit_results failed after it had inserted its QuizTakers row
\* (TakerID 1 is used up and in no table), the session retried and the retry
\* committed the attempt: the session is in QUIZ_COMPLETE with a final score
\* and its attempt is stored under TakerID 2
C19_Witness ==
    \E s \in Sessions :
        /\ session_state[s].mode = "QUIZ_COMPLETE"
        /\ session_state[s].final_score # NoScore
        /\ \E t \in QuizTakers :
              /\ t.TakerID = 2
              /\ t.Taker_Name = session_state[s].quiz_to_take.taker_name
              /\ t.Total_Score = session_state[s].final_score
        /\ \A t \in QuizTakers : t.TakerID # 1
        /\ \E a \in Answers : a.TakerID = 2

----------------------------------------------------------------------------
(* The code specification: generate_access_code is called with every choice of
   characters over DrawnIndices, next to an author who saves a quiz *)

\* the characters random.choice picks in this specification: the first and the
\* last letter, the first and the last digit
DrawnIndices == {1, Len(ascii_uppercase), Len(ascii_uppercase) + 1, Len(characters)}

InitCode ==
    /\ Quizzes = {} /\ SubQuizzes = {} /\ Questions = {} /\ Choices = {}
    /\ QuizTakers = {} /\ Answers = {}
    /\ lastrowid = NoIds
    /\ session_state = [s \in Sessions |-> NewSession]
    /\ ui = [s \in Sessions |-> NewUi]
    /\ conn = [s \in Sessions |-> IdleConn]
    /\ \E draws \in [1 .. CodeLength -> DrawnIndices] :
          scored = [draws |-> draws, called |-> FALSE, code |-> <<>>]

\* generate_access_code() is called and returns
GenerateAccessCode ==
    /\ ~scored.called
    /\ scored' = [scored EXCEPT !.called = TRUE,
                                !.code = join_choices(CodeLength, scored.draws)]
    /\ UNCHANGED <<tables, lastrowid, session_state, ui, conn>>

NextCode ==
    \/ GenerateAccessCode
    \/ \E s \in {1} :
          \/ NavCreator(s)
          \/ RenderPage(s)
          \/ CreateNewQuiz(s)
          \/ \E connected \in BOOLEAN : SaveQuiz(s, connected)
          \/ SaveQuizInsert(s)
          \/ SaveQuizCommit(s)

SpecCode == InitCode /\ [][NextCode]_vars

\* a code of exactly six characters, each an uppercase letter or a digit
SixUpperAlnum(code) ==
    /\ Len(code) = 6
    /\ \A i \in 1 .. Len(code) :
          \/ \E k \in 1 .. 26 : code[i] = ascii_uppercase[k]
          \/ \E k \in 1 .. 10 : code[i] = digits[k]

\* C20: every code generate_access_code has returned, every code save_quiz
\* holds in its transaction or has stored in Quizzes, and every code a session
\* shows after a save, has exactly 6 characters, all of them uppercase letters
\* A-Z or digits 0-9.
C20_CodeShape ==
    /\ scored.called => SixUpperAlnum(scored.code)
    /\ \A q \in Quizzes : SixUpperAlnum(q.Access_Code)
    /\ \A s \in Sessions :
          /\ \A row \in conn[s].rows["Quizzes"] : SixUpperAlnum(row.Access_Code)
          /\ session_state[s].mode = "QUIZ_SAVED" => SixUpperAlnum(session_state[s].last_code)

\* C20 witness: generate_access_code returned a code that mixes letters and
\* digits, and save_quiz stored a quiz under a code of its own
C20_Witness ==
    /\ scored.called
    /\ \E i, j \in 1 .. Len(scored.code) :
          /\ scored.code[i] = ascii_uppercase[26]
          /\ scored.code[j] = digits[10]
    /\ Quizzes # {}

----------------------------------------------------------------------------
(* Properties of the later claims *)

\* the value recorded last under a key of the answers of a session
LastRecorded(answers, key) ==
    answers[CHOOSE i \in 1 .. Len(answers) :
                /\ answers[i].key = key
                /\ \A j \in i + 1 .. Len(answers) : answers[j].key # key].value

\* the text an Answers row carries for a recorded value: the value as text,
\* 'N/A' when nothing was selected
Carried(value) ==
    IF value.py = "None" \/ (value.py = "list" /\ value.v = <<>>) THEN "N/A" ELSE str(value)

\* C21: the step that completes a session inserts exactly one Answers row for
\* each question of the quiz: as many rows as the quiz has questions, every
\* question with a row, no question with two, no row of another question, and
\* each row carries the value recorded last under the (module id, question id)
\* key of its question. The value recorded last is the one the taker entered
\* last: a step that changes the input of the exposed question records the new
\* value under the key of that question, and no step of an active session
\* changes what is recorded under the key of another question.
C21_OneAnswerPerQuestion ==
    [][ \A s \in Sessions :
         /\ (Exposed(s) /\ ui'[s].widget # ui[s].widget
                        /\ ui'[s].widget.key = QuestionKey(session_state[s].quiz_to_take)) =>
                /\ HasKey(session_state'[s].quiz_to_take.answers, ui'[s].widget.key)
                /\ LastRecorded(session_state'[s].quiz_to_take.answers, ui'[s].widget.key)
                      = ui'[s].widget.value
         /\ (Active(session_state[s].quiz_to_take) /\ Active(session_state'[s].quiz_to_take)) =>
                \A i \in 1 .. Len(session_state[s].quiz_to_take.answers) :
                    LET key == session_state[s].quiz_to_take.answers[i].key
                    IN  (InQuiz(session_state[s].quiz_to_take)
                            => key # QuestionKey(session_state[s].quiz_to_take)) =>
                           /\ HasKey(session_state'[s].quiz_to_take.answers, key)
                           /\ LastRecorded(session_state'[s].quiz_to_take.answers, key)
                                 = LastRecorded(session_state[s].quiz_to_take.answers, key)
         /\ (conn[s].pc = "submit" /\ session_state[s].mode # "QUIZ_COMPLETE"
                                  /\ session_state'[s].mode = "QUIZ_COMPLETE") =>
              LET qt == session_state[s].quiz_to_take
                  entries == QuestionEntries(qt.sub_quizzes)
                  new == Answers' \ Answers
              IN  /\ Cardinality(new) = SumF(ModuleSizes(qt), DOMAIN ModuleSizes(qt))
                  /\ \A a \in new :
                        \E i \in 1 .. Len(entries) : a.QuestionID = entries[i].question.id
                  /\ \A i \in 1 .. Len(entries) :
                        \E a \in new :
                            /\ a.QuestionID = entries[i].question.id
                            /\ HasKey(qt.answers, entries[i].key)
                            /\ a.Submitted_Answer = Carried(LastRecorded(qt.answers, entries[i].key))
                            /\ \A b \in new : b.QuestionID = a.QuestionID => b = a ]_vars

\* C21 witness: a completed session whose taker changed the radio of the first
\* question from its default: the attempt has three rows and the row of that
\* question carries the second choice
C21_Witness ==
    \E s \in Sessions :
        /\ session_state[s].mode = "QUIZ_COMPLETE"
        /\ Cardinality(Answers) = 3
        /\ \E a \in Answers :
              /\ TypeOf(a.QuestionID) = "SINGLE_CHOICE"
              /\ a.Submitted_Answer = "2"

\* the Choices rows of a question, committed or inside an open transaction
ChoiceRowsOf(question_id) ==
    {c \in Choices \cup UNION {conn[s].rows["Choices"] : s \in Sessions} :
        c.QuestionID = question_id}

\* C22: whatever choices were removed and added and whatever types were set,
\* while save_quiz runs every question of the session's tree whose type is not
\* OPEN_TEXT has at least two choices, and every committed question whose type
\* is not OPEN_TEXT has at least two Choices rows.
C22_TwoChoicesAtSave ==
    /\ \A s \in Sessions :
          conn[s].pc = "save" =>
             \A i \in 1 .. Len(session_state[s].sub_quizzes) :
                 \A j \in 1 .. Len(session_state[s].sub_quizzes[i].questions) :
                     LET question == session_state[s].sub_quizzes[i].questions[j]
                     IN  question.type # "OPEN_TEXT" => Len(question.choices) >= 2
    /\ \A q \in Questions :
          q.Question_Type # "OPEN_TEXT" =>
             Cardinality({c \in Choices : c.QuestionID = q.QuestionID}) >= 2

\* C22 witness: choices were removed and added before the save: the committed
\* choice question has lost 'Choice C', has the added 'Choice D', three
\* choices in all, and none of them is correct
C22_Witness ==
    \E q \in Questions :
        /\ q.Question_Type # "OPEN_TEXT"
        /\ Cardinality(ChoiceRowsOf(q.QuestionID)) = 3
        /\ \A c \in ChoiceRowsOf(q.QuestionID) : c.Is_Correct = 0
        /\ \E c \in ChoiceRowsOf(q.QuestionID) : c.Choice_Text = "Choice D"
        /\ \A c \in ChoiceRowsOf(q.QuestionID) : c.Choice_Text # "Choice C"

\* C23 (as claimed): the ids of the choices of every question of an authored
\* tree are pairwise distinct, whatever choices were added and removed.
C23_ChoiceIdsDistinct ==
    \A s \in Sessions :
        session_state[s].mode = "CREATE_QUIZ" =>
            \A i \in 1 .. Len(session_state[s].sub_quizzes) :
                \A j \in 1 .. Len(session_state[s].sub_quizzes[i].questions) :
                    LET choices == session_state[s].sub_quizzes[i].questions[j].choices
                    IN  \A k, l \in 1 .. Len(choices) :
                            k # l => choices[k].id # choices[l].id

----------------------------------------------------------------------------
(* The progress-to-completion specification: a taker who enters the quiz
   and stays in it, answering and pressing "Next Question". Every step that
   stays possible is taken in the end: the script runs that st.rerun() queues,
   the next press of "Next Question", the statements and the commit of
   submit_results. The store accepts in the end: it fails only after it has
   handed out a TakerID, and only while a later attempt is left within
   MaxSubmits *)

NextLive ==
    \E s \in TakerSessions :
        \/ (session_state[s].mode = "HOME" /\ NavTaker(s))
        \/ RenderPage(s)
        \/ \E typed \in TypedCodes : \E connected \in BOOLEAN : FindQuiz(s, typed, connected)
        \/ \E name \in Names : EnterName(s, name)
        \/ RenderNameInput(s)
        \/ StartQuiz(s)
        \/ AnswerQuestion(s)
        \/ NextQuestion(s)
        \/ RenderQuestion(s)
        \/ NextSubQuiz(s)
        \/ \E connected \in BOOLEAN : SubmitResults(s, connected)
        \/ SubmitResultsInsert(s)
        \/ SubmitResultsCommit(s)
        \/ (/\ conn[s].rows["QuizTakers"] # {}
            /\ lastrowid["QuizTakers"] < MaxSubmits
            /\ SubmitResultsError(s))

\* the state in which the script run calls submit_results
SubmitEnabled(s) ==
    LET qt == session_state[s].quiz_to_take
    IN  /\ conn[s].pc = "idle"
        /\ session_state[s].mode = "TAKER"
        /\ qt.present
        /\ qt.current_step = "QUIZ_ACTIVE"
        /\ submit_due(qt)
        /\ lastrowid["QuizTakers"] < MaxSubmits

\* The taker keeps pressing Next, every pending script run happens, and the
\* store eventually accepts the connection and the statements sent to it.
\* The condition on SubmitResults is its weak fairness with the enabling
\* condition written out.
FairLive ==
    \A s \in TakerSessions :
        /\ WF_vars(RenderQuestion(s))
        /\ WF_vars(NextSubQuiz(s))
        /\ WF_vars(NextQuestion(s))
        /\ ([]<>(~SubmitEnabled(s)) \/ []<><<SubmitResults(s, TRUE)>>_vars)
        /\ WF_vars(SubmitResultsInsert(s))
        /\ WF_vars(SubmitResultsCommit(s))

SpecLive == InitTake /\ [][NextLive]_vars /\ FairLive

\* the questions the cursor of a taken quiz has left behind
QuestionsPassed(qt) ==
    SumF(ModuleSizes(qt), 1 .. qt.current_subquiz_index) + qt.current_question_index

\* C24: a session in ACTIVE with the cursor at (0, 0) eventually reaches
\* COMPLETE. On the way every "Next Question" leaves exactly one more question
\* behind and no other step of the active session changes that number, which
\* is 0 at (0, 0); submit_results runs only when it has reached the number of
\* questions of the quiz, and a session enters COMPLETE only from a running
\* submit_results: exactly as many presses as the quiz has questions.
C24_ReachesComplete ==
    /\ \A s \in TakerSessions :
          (/\ Active(session_state[s].quiz_to_take)
           /\ session_state[s].mode = "TAKER"
           /\ session_state[s].quiz_to_take.current_subquiz_index = 0
           /\ session_state[s].quiz_to_take.current_question_index = 0)
          ~> (session_state[s].mode = "QUIZ_COMPLETE")
    /\ [][ \A s \in TakerSessions :
              LET qt == session_state[s].quiz_to_take
                  qt2 == session_state'[s].quiz_to_take
              IN  /\ NextQuestion(s) => QuestionsPassed(qt2) = QuestionsPassed(qt) + 1
                  /\ (Active(qt) /\ Active(qt2) /\ ~NextQuestion(s))
                        => QuestionsPassed(qt2) = QuestionsPassed(qt)
                  /\ (~Active(qt) /\ Active(qt2)) => QuestionsPassed(qt2) = 0
                  /\ conn'[s].pc = "submit" =>
                        QuestionsPassed(qt2) = SumF(ModuleSizes(qt2), DOMAIN ModuleSizes(qt2))
                  /\ (session_state[s].mode # "QUIZ_COMPLETE"
                        /\ session_state'[s].mode = "QUIZ_COMPLETE") => conn[s].pc = "submit" ]_vars

\* C24 witness: a session reached COMPLETE after a first submit_results had
\* failed (TakerID 1 is used up): three questions passed, the attempt stored
C24_Witness ==
    \E s \in TakerSessions :
        /\ session_state[s].mode = "QUIZ_COMPLETE"
        /\ QuestionsPassed(session_state[s].quiz_to_take) = 3
        /\ lastrowid["QuizTakers"] = 2
        /\ Cardinality(QuizTakers) = 1

\* C25: for every persisted Answers row, Score_Achieved is 0 or exactly the
\* Points of the row's question, so it never exceeds them, and Is_Correct
\* is 1 exactly when Score_Achieved equals those Points (and is 0 otherwise)
C25_ScoreZeroOrPoints ==
    \A a \in Answers :
        /\ \E q \in Questions : q.QuestionID = a.QuestionID
        /\ a.Score_Achieved \in {0, PointsOf(a.QuestionID)}
        /\ a.Score_Achieved <= PointsOf(a.QuestionID)
        /\ a.Is_Correct \in {0, 1}
        /\ a.Is_Correct = 1 <=> a.Score_Achieved = PointsOf(a.QuestionID)

\* C25 witness: one committed attempt holds a multi select answer with the
\* full 2 points marked correct, and an answered single choice question with
\* 0 points marked incorrect
C25_Witness ==
    \E a, b \in Answers :
        /\ a.TakerID = b.TakerID
        /\ TypeOf(a.QuestionID) = "MULTI_SELECT"
        /\ PointsOf(a.QuestionID) = 2
        /\ a.Score_Achieved = 2
        /\ a.Is_Correct = 1
        /\ TypeOf(b.QuestionID) = "SINGLE_CHOICE"
        /\ b.Submitted_Answer # "N/A"
        /\ b.Score_Achieved = 0
        /\ b.Is_Correct = 0

----------------------------------------------------------------------------
(* The store specification: two sessions save quizzes in transactions that
   may overlap, while a taker finds a saved quiz, takes it and submits *)

NextStore ==
    \/ \E s \in AuthorSessions :
          \/ NavCreator(s)
          \/ RenderPage(s)
          \/ CreateNewQuiz(s)
          \/ \E connected \in BOOLEAN : SaveQuiz(s, connected)
          \/ SaveQuizInsert(s)
          \/ SaveQuizCommit(s)
          \/ SaveQuizError(s)
    \/ \E s \in TakerSessions :
          \/ NavTaker(s)
          \/ \E typed \in TypedCodes : \E connected \in BOOLEAN :
                FindQuizBegin(s, typed, connected)
          \/ GetSubQuizzes(s)
          \/ GetQuestions(s)
          \/ GetChoices(s)
          \/ GetQuizReturn(s)
          \/ GetQuizError(s)
          \/ \E name \in Names : EnterName(s, name)
          \/ RenderNameInput(s)
          \/ StartQuiz(s)
          \/ RenderQuestion(s)
          \/ NextQuestion(s)
          \/ NextSubQuiz(s)
          \/ \E connected \in BOOLEAN : SubmitResults(s, connected)
          \/ SubmitResultsInsert(s)
          \/ SubmitResultsCommit(s)
          \/ SubmitResultsError(s)

SpecStore == InitAuthor /\ [][NextStore]_vars

\* the rows of a quiz definition
DefinitionTables == <<Quizzes, SubQuizzes, Questions, Choices>>

\* a step of get_quiz_by_code or of submit_results, successful or failing
ReadOrSubmitStep(s) ==
    \/ \E typed \in TypedCodes : \E connected \in BOOLEAN : FindQuizBegin(s, typed, connected)
    \/ GetSubQuizzes(s) \/ GetQuestions(s) \/ GetChoices(s)
    \/ GetQuizReturn(s) \/ GetQuizError(s)
    \/ \E connected \in BOOLEAN : SubmitResults(s, connected)
    \/ SubmitResultsInsert(s) \/ SubmitResultsCommit(s) \/ SubmitResultsError(s)

\* C26: a persisted quiz definition is immutable. No step of get_quiz_by_code
\* or submit_results, successful or failing, changes a Quizzes, SubQuizzes,
\* Questions or Choices row; no step at all removes or alters such a row; and
\* the rows a step adds (the commit of a save_quiz) are one Quizzes row with
\* a QuizID no earlier quiz has, and rows that hang from that new quiz only
C26_DefinitionImmutable ==
    [][ LET newQuizzes == Quizzes' \ Quizzes
            newSubQuizzes == SubQuizzes' \ SubQuizzes
            newQuestions == Questions' \ Questions
            newChoices == Choices' \ Choices
        IN  /\ \A s \in Sessions : ReadOrSubmitStep(s) => UNCHANGED DefinitionTables
            /\ Quizzes \subseteq Quizzes'
            /\ SubQuizzes \subseteq SubQuizzes'
            /\ Questions \subseteq Questions'
            /\ Choices \subseteq Choices'
            /\ DefinitionTables' # DefinitionTables =>
                    /\ \E s \in Sessions : SaveQuizCommit(s)
                    /\ Cardinality(newQuizzes) = 1
            /\ \A q \in newQuizzes : \A old \in Quizzes : q.QuizID # old.QuizID
            /\ \A sq \in newSubQuizzes :
                    /\ \E q \in newQuizzes : sq.QuizID = q.QuizID
                    /\ \A old \in SubQuizzes : sq.SubQuizID # old.SubQuizID
            /\ \A qu \in newQuestions :
                    /\ \E sq \in newSubQuizzes : qu.SubQuizID = sq.SubQuizID
                    /\ \A old \in Questions : qu.QuestionID # old.QuestionID
            /\ \A ch \in newChoices :
                    /\ \E qu \in newQuestions : ch.QuestionID = qu.QuestionID
                    /\ \A old \in Choices : ch.ChoiceID # old.ChoiceID ]_vars

\* C26 witness: two saved quizzes are stored with all their rows (1 module,
\* 1 question and 3 choices each); a taker read the one with the smaller
\* QuizID, one submit_results of that taker failed and a later one committed
\* an attempt on that quiz
C26_Witness ==
    /\ Cardinality(Quizzes) = 2
    /\ Cardinality(SubQuizzes) = 2
    /\ Cardinality(Questions) = 2
    /\ Cardinality(Choices) = 6
    /\ Cardinality(QuizTakers) = 1
    /\ lastrowid["QuizTakers"] = 2
    /\ \E s \in TakerSessions : \E t \in QuizTakers :
            /\ session_state[s].quiz_to_take.present
            /\ session_state[s].quiz_to_take.id = t.QuizID
            /\ \E q \in Quizzes : q.QuizID = t.QuizID
            /\ \E q \in Quizzes : q.QuizID > t.QuizID

====
